---------------------------- MODULE Spec2Model ----------------------------
(***************************************************************************)
(* A model of the `renovation` package: floor-plan elements are built from *)
(* physical parameters and drawn as primitives (rectangles, arcs, circles, *)
(* line segments, polygons, text labels) on a matplotlib axes.             *)
(*                                                                         *)
(* Numbers.  The program computes with floats; the model computes with the *)
(* exact real values.  A number is a tuple <<a, b, c, d>> of integers that *)
(* stands for (a + b*sqrt(2) + c*sqrt(3) + d*sqrt(6)) / Scale.  This field *)
(* holds the sine and cosine of every multiple of 15 degrees, so rotations *)
(* by such angles are exact.  Every division is exact or TLC stops.        *)
(*                                                                         *)
(* Angles.  Degrees are integers.  A value in radians is an integer count  *)
(* of pi/12 (15 degrees); math.radians converts between the two.           *)
(*                                                                         *)
(* Style.  A primitive keeps its geometry, its fill flag and its colour;   *)
(* line widths are handed to matplotlib as given and are left out.         *)
(*                                                                         *)
(* Machines.  Spec constructs one element and draws it on an axes;         *)
(* PlanSpec builds one FloorPlan, titles it and adds elements to it;       *)
(* ProjectSpec renders a Project of floor plans to PDF and to PNG files;   *)
(* MainSpec runs main over a configuration: it builds the floor plans and  *)
(* their elements from the settings, then the project, and renders it.     *)
(* A text (title, file name) is a sequence of characters.                  *)
(***************************************************************************)
EXTENDS Integers, Sequences, FiniteSets, TLC

VARIABLES
    element,    \* the element object under study, or NoElement
    ax,         \* the primitives on the matplotlib axes, in paint order
    raised,     \* the exception the last call raised, or "None"
    call,       \* the last constructor call: its class and its arguments
    draws,      \* how many times element.draw(ax) has run
    floor_plan, \* the FloorPlan object main is building, or NoPlan
    layout,     \* the layout parameters the FloorPlan was built from
    calls,      \* the elements handed to add_element, in call order
    title_calls, \* the arguments of the add_title calls, in call order
    project,    \* the Project object, or NoProject
    pdf,        \* the PDF document written: its pages, or None
    png_dir,    \* the PNG output directory: its files, or None if absent
    rendered,   \* which of render_to_pdf ("pdf"), render_to_png ("png") ran
    render_calls, \* the render calls made on the project, in call order
    config,     \* the configuration file main reads
    settings,   \* the settings main has loaded from the file
    pc,         \* the statement of main that runs next
    floor_plans \* the list of finished floor plans main has built

elementVars == <<element, ax, call, draws>>
planVars == <<floor_plan, layout, calls, title_calls>>
projectVars == <<project, pdf, png_dir, rendered, render_calls>>
mainVars == <<config, settings, pc, floor_plans>>
vars == <<elementVars, raised, planVars, projectVars, mainVars>>

---------------------------------------------------------------------------
(* Exact arithmetic *)

Scale == 128 * 75

ExactDiv(n, m) == CHOOSE q \in {n \div m} : q * m = n

Zero == <<0, 0, 0, 0>>
Int2Num(k) == <<k * Scale, 0, 0, 0>>
Frac(n, m) == <<ExactDiv(n * Scale, m), 0, 0, 0>>

Add(x, y) == <<x[1] + y[1], x[2] + y[2], x[3] + y[3], x[4] + y[4]>>
Neg(x) == <<-x[1], -x[2], -x[3], -x[4]>>
Sub(x, y) == Add(x, Neg(y))
Mul(x, y) ==
    <<ExactDiv(x[1]*y[1] + 2*x[2]*y[2] + 3*x[3]*y[3] + 6*x[4]*y[4], Scale),
      ExactDiv(x[1]*y[2] + x[2]*y[1] + 3*(x[3]*y[4] + x[4]*y[3]), Scale),
      ExactDiv(x[1]*y[3] + x[3]*y[1] + 2*(x[2]*y[4] + x[4]*y[2]), Scale),
      ExactDiv(x[1]*y[4] + x[4]*y[1] + x[2]*y[3] + x[3]*y[2], Scale)>>

\* 1/y for a y that is a rational multiple of 1, sqrt(2), sqrt(3) or sqrt(6)
Recip(y) ==
    CASE y[1] # 0 /\ y[2] = 0 /\ y[3] = 0 /\ y[4] = 0 ->
            <<ExactDiv(Scale * Scale, y[1]), 0, 0, 0>>
      [] y[1] = 0 /\ y[2] # 0 /\ y[3] = 0 /\ y[4] = 0 ->
            <<0, ExactDiv(Scale * Scale, 2 * y[2]), 0, 0>>
      [] y[1] = 0 /\ y[2] = 0 /\ y[3] # 0 /\ y[4] = 0 ->
            <<0, 0, ExactDiv(Scale * Scale, 3 * y[3]), 0>>
      [] y[1] = 0 /\ y[2] = 0 /\ y[3] = 0 /\ y[4] # 0 ->
            <<0, 0, 0, ExactDiv(Scale * Scale, 6 * y[4])>>
Div(x, y) == Mul(x, Recip(y))

IsRational(x) == x[2] = 0 /\ x[3] = 0 /\ x[4] = 0
\* comparisons, of rational numbers only
Leq(x, y) == IF IsRational(x) /\ IsRational(y) THEN x[1] <= y[1]
             ELSE CHOOSE b \in {} : TRUE
Less(x, y) == Leq(x, y) /\ x # y

\* points and vectors are pairs of numbers
Origin == <<Zero, Zero>>
PAdd(p, q) == <<Add(p[1], q[1]), Add(p[2], q[2])>>
PSub(p, q) == <<Sub(p[1], q[1]), Sub(p[2], q[2])>>
PScale(k, p) == <<Mul(k, p[1]), Mul(k, p[2])>>
Dot(p, q) == Add(Mul(p[1], q[1]), Mul(p[2], q[2]))

---------------------------------------------------------------------------
(* math.radians, math.pi, math.cos, math.sin, math.tan, math.sqrt(2) *)

Radians(deg) == ExactDiv(deg, 15)
Pi == Radians(180)

CosTable ==
    <<  <<Scale, 0, 0, 0>>,
        <<0, Scale \div 4, 0, Scale \div 4>>,
        <<0, 0, Scale \div 2, 0>>,
        <<0, Scale \div 2, 0, 0>>,
        <<Scale \div 2, 0, 0, 0>>,
        <<0, -(Scale \div 4), 0, Scale \div 4>>,
        Zero  >>

Cos(rad) ==
    LET m == rad % (2 * Pi)
    IN  IF m <= 6 THEN CosTable[m + 1]
        ELSE IF m <= 12 THEN Neg(CosTable[12 - m + 1])
        ELSE IF m <= 18 THEN Neg(CosTable[m - 12 + 1])
        ELSE CosTable[24 - m + 1]
Sin(rad) == Cos(rad - ExactDiv(Pi, 2))
Tan(rad) == Div(Sin(rad), Cos(rad))
Sqrt2 == <<0, Scale, 0, 0>>

\* the unit vector at an angle given in degrees
Dir(deg) == <<Cos(Radians(deg)), Sin(Radians(deg))>>

---------------------------------------------------------------------------
(* Program constants *)

STRAIGHT_ANGLE_IN_DEGREES == 90
RIGHT_ANGLE_IN_DEGREES == 90

---------------------------------------------------------------------------
(* Inputs *)

MaxLen == 3        \* lengths are 1..MaxLen metres
MaxThick == 5      \* thicknesses are 1..MaxThick tenths of a metre
MaxWidth == 4      \* door widths are 2, 4 .. 2*MaxWidth tenths of a metre
MaxArcs == 3       \* an electrical cable has 0..MaxArcs arcs
MaxDraws == 2      \* draw calls on one axes

Anchors == {Origin, <<Int2Num(2), Int2Num(-1)>>}
Angles == {-90, 0, 30, 45, 90, 390}
Lengths == {Int2Num(k) : k \in 1..MaxLen}
Thicknesses == {Frac(k, 10) : k \in 1..MaxThick}
Widths == {Frac(2 * k, 10) : k \in 1..MaxWidth}
HalfLengths == {Frac(k, 2) : k \in 1..(2 * MaxLen)}
SymbolSizes == {Frac(k, 2) : k \in 1..MaxLen}
ArrowWidths == {Frac(1, 10), Frac(2, 10)}
TipLengths == {Frac(1, 10), Frac(2, 10)}
FontSizes == {8, 10}
StubDepths == {Frac(3, 10), Frac(1, 2)}
Colors == {"black"}

NoElement == [kind |-> "None"]
NoCall == [class |-> "None"]

---------------------------------------------------------------------------
(* Primitives of the drawing surface *)

Rectangle(xy, width, height, angle, fill, color) ==
    [kind |-> "Rectangle", xy |-> xy, width |-> width, height |-> height,
     angle |-> angle, fill |-> fill, color |-> color]

Arc(xy, width, height, angle, theta1, theta2, color) ==
    [kind |-> "Arc", xy |-> xy, width |-> width, height |-> height,
     angle |-> angle, theta1 |-> theta1, theta2 |-> theta2, color |-> color]

Circle(xy, radius, fill, color) ==
    [kind |-> "Circle", xy |-> xy, radius |-> radius, fill |-> fill,
     color |-> color]

Line2D(p1, p2, color) ==
    [kind |-> "Line2D", p1 |-> p1, p2 |-> p2, color |-> color]

\* matplotlib closes a Polygon patch: its last vertex is joined to its first
Polygon(xy, color) ==
    [kind |-> "Polygon", xy |-> xy, closed |-> TRUE, color |-> color]

Text(xy, text, rotation, fontsize, color) ==
    [kind |-> "Text", xy |-> xy, text |-> text, rotation |-> rotation,
     fontsize |-> fontsize, color |-> color]

---------------------------------------------------------------------------
(* basic.py: Wall *)

WallInit(anchor_point, length, thickness, orientation_angle, color) ==
    [kind |-> "Wall", anchor_point |-> anchor_point, length |-> length,
     thickness |-> thickness, orientation_angle |-> orientation_angle,
     color |-> color]

WallDraw(self) ==
    << Rectangle(self.anchor_point, self.length, self.thickness,
                 self.orientation_angle, TRUE, self.color) >>

---------------------------------------------------------------------------
(* basic.py: Window *)

WindowInvalidStrict(overall_thickness, single_line_thickness) ==
    Less(Sub(overall_thickness, Mul(Int2Num(2), single_line_thickness)), Zero)

\* the condition under which Window.__init__ raises ValueError
WindowInvalid(overall_thickness, single_line_thickness) ==
    LET internal_thickness ==
            Sub(overall_thickness, Mul(Int2Num(2), single_line_thickness))
    IN  Leq(internal_thickness, Zero)

WindowInit(anchor_point, length, overall_thickness, single_line_thickness, orientation_angle, color) ==
    [kind |-> "Window", anchor_point |-> anchor_point, length |-> length,
     overall_thickness |-> overall_thickness,
     single_line_thickness |-> single_line_thickness,
     orientation_angle |-> orientation_angle, color |-> color]

WindowShiftOverall(self) == self.overall_thickness

\* the distance between the anchor points of the two lines
WindowShift(self) ==
    Sub(self.overall_thickness, self.single_line_thickness)

WindowDraw(self) ==
    LET first_line ==
            Rectangle(self.anchor_point, self.length,
                      self.single_line_thickness, self.orientation_angle,
                      TRUE, self.color)
        orthogonal_angle_in_rad ==
            Radians(self.orientation_angle + STRAIGHT_ANGLE_IN_DEGREES)
        shift == WindowShift(self)
        second_anchor_point ==
            << Add(self.anchor_point[1], Mul(Cos(orthogonal_angle_in_rad), shift)),
               Add(self.anchor_point[2], Mul(Sin(orthogonal_angle_in_rad), shift)) >>
        second_line ==
            Rectangle(second_anchor_point, self.length,
                      self.single_line_thickness, self.orientation_angle,
                      TRUE, self.color)
    IN  << first_line, second_line >>

---------------------------------------------------------------------------
(* basic.py: Door *)

DoorInit(anchor_point, doorway_width, door_width, thickness, orientation_angle, to_the_right, color) ==
    [kind |-> "Door", anchor_point |-> anchor_point,
     doorway_width |-> doorway_width, door_width |-> door_width,
     frame_width |-> Div(Sub(doorway_width, door_width), Int2Num(2)),
     thickness |-> thickness, orientation_angle |-> orientation_angle,
     to_the_right |-> to_the_right, color |-> color]

DoorFrameWithHinges(self) ==
    LET frame_orientation_angle ==
            self.orientation_angle - STRAIGHT_ANGLE_IN_DEGREES
    IN  Rectangle(self.anchor_point, self.thickness, self.frame_width,
                  frame_orientation_angle, TRUE, self.color)

DoorFrameWithoutHingesShort(self) ==
    LET orientation_angle_in_rad == Radians(self.orientation_angle)
        shift == self.door_width
    IN  Rectangle(<< Add(self.anchor_point[1],
                         Mul(Cos(orientation_angle_in_rad), shift)),
                     Add(self.anchor_point[2],
                         Mul(Sin(orientation_angle_in_rad), shift)) >>,
                  self.thickness, self.frame_width,
                  self.orientation_angle - STRAIGHT_ANGLE_IN_DEGREES,
                  TRUE, self.color)

DoorFrameWithoutHinges(self) ==
    LET orientation_angle_in_rad == Radians(self.orientation_angle)
        frame_orientation_angle ==
            self.orientation_angle - STRAIGHT_ANGLE_IN_DEGREES
        shift == Add(self.frame_width, self.door_width)
        frame_without_hinges_anchor_point ==
            << Add(self.anchor_point[1],
                   Mul(Cos(orientation_angle_in_rad), shift)),
               Add(self.anchor_point[2],
                   Mul(Sin(orientation_angle_in_rad), shift)) >>
    IN  Rectangle(frame_without_hinges_anchor_point, self.thickness,
                  self.frame_width, frame_orientation_angle, TRUE,
                  self.color)

DoorHingesPointUnshifted(self) ==
    LET orientation_angle_in_rad == Radians(self.orientation_angle)
    IN  << Add(self.anchor_point[1],
               Mul(Cos(orientation_angle_in_rad), self.frame_width)),
           Add(self.anchor_point[2],
               Mul(Sin(orientation_angle_in_rad), self.frame_width)) >>

DoorHingesPoint(self) ==
    LET orientation_angle_in_rad == Radians(self.orientation_angle)
        hinges_point ==
            << Add(self.anchor_point[1],
                   Mul(Cos(orientation_angle_in_rad), self.frame_width)),
               Add(self.anchor_point[2],
                   Mul(Sin(orientation_angle_in_rad), self.frame_width)) >>
    IN  IF self.to_the_right
        THEN << Add(hinges_point[1],
                    Mul(Sin(orientation_angle_in_rad), self.thickness)),
                Sub(hinges_point[2],
                    Mul(Cos(orientation_angle_in_rad), self.thickness)) >>
        ELSE hinges_point

DoorLeaf(self) ==
    IF self.to_the_right
    THEN Rectangle(DoorHingesPoint(self), self.door_width, self.thickness,
                   self.orientation_angle - STRAIGHT_ANGLE_IN_DEGREES,
                   TRUE, self.color)
    ELSE Rectangle(DoorHingesPoint(self), self.thickness, self.door_width,
                   self.orientation_angle, TRUE, self.color)

DoorArcAnglesOvershootAtStart(self) ==
    IF self.to_the_right
    THEN << -STRAIGHT_ANGLE_IN_DEGREES, 2 >>
    ELSE << -2, STRAIGHT_ANGLE_IN_DEGREES >>

\* <<start_angle, end_angle>> of the swing arc
DoorArcAngles(self) ==
    LET extra_degrees_for_smooth_connection == 2
    IN  IF self.to_the_right
        THEN << -STRAIGHT_ANGLE_IN_DEGREES
                    - extra_degrees_for_smooth_connection, 0 >>
        ELSE << 0, STRAIGHT_ANGLE_IN_DEGREES
                    + extra_degrees_for_smooth_connection >>

DoorArc(self) ==
    LET orientation_angle_in_rad == Radians(self.orientation_angle)
        hinges_point == DoorHingesPoint(self)
        arc_anchor_point ==
            << Add(hinges_point[1],
                   Mul(Cos(orientation_angle_in_rad), self.thickness)),
               Add(hinges_point[2],
                   Mul(Sin(orientation_angle_in_rad), self.thickness)) >>
    IN  Arc(arc_anchor_point,
            Mul(Int2Num(2), Sub(self.door_width, self.thickness)),
            Mul(Int2Num(2), self.door_width),
            self.orientation_angle,
            DoorArcAngles(self)[1], DoorArcAngles(self)[2], self.color)

DoorDraw(self) ==
    << DoorFrameWithHinges(self), DoorFrameWithoutHinges(self),
       DoorLeaf(self), DoorArc(self) >>

---------------------------------------------------------------------------
(* str() of a number: an int prints its digits, a float prints its digits *)
(* with a decimal point (a whole number read from the configuration is an *)
(* int, any other a float); a text is a sequence of characters            *)

Digits == <<"0", "1", "2", "3", "4", "5", "6", "7", "8", "9">>

RECURSIVE IntStr(_)
IntStr(n) ==
    IF n < 10 THEN <<Digits[n + 1]>>
    ELSE IntStr(n \div 10) \o <<Digits[(n % 10) + 1]>>

\* the digits of r / Scale after the decimal point, for 0 <= r < Scale
RECURSIVE FracStr(_)
FracStr(r) ==
    IF r = 0 THEN << >>
    ELSE <<Digits[((10 * r) \div Scale) + 1]>> \o FracStr((10 * r) % Scale)

\* str(x) for a rational x >= 0
PyStr(x) ==
    IF x[1] % Scale = 0 THEN IntStr(x[1] \div Scale)
    ELSE IntStr(x[1] \div Scale) \o <<".">> \o FracStr(x[1] % Scale)

---------------------------------------------------------------------------
(* info.py: DimensionArrow *)

DimensionArrowInit(anchor_point, length, orientation_angle, width, tip_length, font_size, annotate_above, color) ==
    [kind |-> "DimensionArrow", anchor_point |-> anchor_point,
     length |-> length, orientation_angle |-> orientation_angle,
     width |-> width, tip_length |-> tip_length, font_size |-> font_size,
     annotate_above |-> annotate_above, color |-> color]

ArrowInitialVertices(self) ==
    LET tip_angle == Radians(30)
        l == self.length
        w == self.width
        t == self.tip_length
        half_w == Div(w, Int2Num(2))
        barb_x == Sub(t, Mul(Sin(tip_angle), w))
        barb_y == Mul(Tan(tip_angle), Sub(t, Mul(Sin(tip_angle), w)))
        notch_y == Sub(Mul(Tan(tip_angle), Sub(t, Mul(Sin(tip_angle), w))),
                       Mul(Cos(tip_angle), w))
        shaft_x == Add(Div(Div(w, Int2Num(2)), Tan(tip_angle)),
                       Div(w, Sin(tip_angle)))
    IN  << <<Zero, Zero>>,
           <<barb_x, barb_y>>,
           <<t, notch_y>>,
           <<shaft_x, half_w>>,
           <<Sub(l, shaft_x), half_w>>,
           <<Sub(l, t), notch_y>>,
           <<Add(Sub(l, t), Mul(Sin(tip_angle), w)), barb_y>>,
           <<l, Zero>>,
           <<Add(Sub(l, t), Mul(Sin(tip_angle), w)), Neg(barb_y)>>,
           <<Sub(l, t), Neg(notch_y)>>,
           <<Sub(l, shaft_x), Neg(half_w)>>,
           <<shaft_x, Neg(half_w)>>,
           <<t, Neg(notch_y)>>,
           <<barb_x, Neg(barb_y)>> >>

\* np.dot(rotation_matrix, v): the rotation matrix applied to a vector
Rotate(v, rotation_angle) ==
    << Add(Mul(Cos(rotation_angle), v[1]), Mul(Neg(Sin(rotation_angle)), v[2])),
       Add(Mul(Sin(rotation_angle), v[1]), Mul(Cos(rotation_angle), v[2])) >>

ArrowPolygonDropLast(self) ==
    LET rotation_angle == Radians(self.orientation_angle)
        initial_vertices == ArrowInitialVertices(self)
    IN  Polygon([i \in 1..(Len(initial_vertices) - 1) |->
                    PAdd(Rotate(initial_vertices[i], rotation_angle),
                         self.anchor_point)],
                self.color)

ArrowPolygon(self) ==
    LET rotation_angle == Radians(self.orientation_angle)
        initial_vertices == ArrowInitialVertices(self)
        rotated_vertices ==
            [i \in 1..Len(initial_vertices) |->
                Rotate(initial_vertices[i], rotation_angle)]
        shift_vector == self.anchor_point
        vertices ==
            [i \in 1..Len(rotated_vertices) |->
                PAdd(rotated_vertices[i], shift_vector)]
    IN  Polygon(vertices, self.color)

ArrowTextCenterFlipped(self) ==
    << Div(self.length, Int2Num(2)),
       IF self.annotate_above
       THEN Neg(Mul(Int2Num(self.font_size), Frac(125, 10000)))
       ELSE Mul(Int2Num(self.font_size), Frac(125, 10000)) >>

ArrowTextCenter(self) ==
    << Div(self.length, Int2Num(2)),
       IF self.annotate_above
       THEN Mul(Int2Num(self.font_size), Frac(125, 10000))
       ELSE Neg(Mul(Int2Num(self.font_size), Frac(125, 10000))) >>

ArrowText(self) ==
    LET rotation_angle == Radians(self.orientation_angle)
        initial_text_center == ArrowTextCenter(self)
        text_anchor_point ==
            PAdd(Rotate(initial_text_center, rotation_angle),
                 self.anchor_point)
        text == PyStr(self.length)
    IN  Text(text_anchor_point, text, self.orientation_angle,
             self.font_size, self.color)

DimensionArrowDraw(self) == << ArrowPolygon(self), ArrowText(self) >>

---------------------------------------------------------------------------
(* lighting.py: WallLamp *)

WallLampInit(anchor_point, symbol_diameter, orientation_angle, stub_relative_depth, color) ==
    [kind |-> "WallLamp", anchor_point |-> anchor_point,
     symbol_diameter |-> symbol_diameter,
     orientation_angle |-> orientation_angle,
     stub_relative_depth |-> stub_relative_depth, color |-> color]

WallLampStubWidth(self) ==
    Mul(Mul(Frac(1, 2), Sqrt2), self.symbol_diameter)

WallLampStub(self) ==
    LET orientation_angle_in_radians == Radians(self.orientation_angle)
        stub_width == WallLampStubWidth(self)
        stub_depth == Mul(self.stub_relative_depth, stub_width)
        stub_anchor_point ==
            << Sub(self.anchor_point[1],
                   Mul(Mul(Frac(1, 2), Cos(orientation_angle_in_radians)),
                       stub_width)),
               Sub(self.anchor_point[2],
                   Mul(Mul(Frac(1, 2), Sin(orientation_angle_in_radians)),
                       stub_width)) >>
    IN  Rectangle(stub_anchor_point, stub_width, stub_depth,
                  self.orientation_angle, FALSE, self.color)

WallLampArcCenter(self) ==
    LET orientation_angle_in_radians == Radians(self.orientation_angle)
        stub_width == WallLampStubWidth(self)
        stub_depth == Mul(self.stub_relative_depth, stub_width)
        orthogonal_angle_in_radians ==
            orientation_angle_in_radians + ExactDiv(Pi, 2)
        shift == Add(stub_depth, Mul(Frac(1, 2), stub_width))
    IN  << Add(self.anchor_point[1],
               Mul(Cos(orthogonal_angle_in_radians), shift)),
           Add(self.anchor_point[2],
               Mul(Sin(orthogonal_angle_in_radians), shift)) >>

WallLampArcAnglesFullTurn(self) ==
    << self.orientation_angle - ExactDiv(RIGHT_ANGLE_IN_DEGREES, 2),
       self.orientation_angle + ExactDiv(7 * RIGHT_ANGLE_IN_DEGREES, 2) >>

\* <<theta1, theta2>> of the arc
WallLampArcAngles(self) ==
    << self.orientation_angle - ExactDiv(RIGHT_ANGLE_IN_DEGREES, 2),
       self.orientation_angle + ExactDiv(5 * RIGHT_ANGLE_IN_DEGREES, 2) >>

WallLampArc(self) ==
    Arc(WallLampArcCenter(self), self.symbol_diameter, self.symbol_diameter,
        0, WallLampArcAngles(self)[1], WallLampArcAngles(self)[2],
        self.color)

\* the stroke of the cross between the directions a and b (in radians)
WallLampStroke(self, a, b) ==
    LET arc_center == WallLampArcCenter(self)
    IN  Line2D(<< Add(arc_center[1],
                      Mul(Mul(Frac(1, 2), Cos(a)), self.symbol_diameter)),
                  Add(arc_center[2],
                      Mul(Mul(Frac(1, 2), Sin(a)), self.symbol_diameter)) >>,
               << Add(arc_center[1],
                      Mul(Mul(Frac(1, 2), Cos(b)), self.symbol_diameter)),
                  Add(arc_center[2],
                      Mul(Mul(Frac(1, 2), Sin(b)), self.symbol_diameter)) >>,
               self.color)

WallLampDraw(self) ==
    LET orientation_angle_in_radians == Radians(self.orientation_angle)
        cross_angles ==
            << orientation_angle_in_radians - ExactDiv(3 * Pi, 4),
               orientation_angle_in_radians + ExactDiv(Pi, 4),
               orientation_angle_in_radians + ExactDiv(3 * Pi, 4),
               orientation_angle_in_radians - ExactDiv(Pi, 4) >>
    IN  << WallLampStub(self), WallLampArc(self),
           WallLampStroke(self, cross_angles[1], cross_angles[2]),
           WallLampStroke(self, cross_angles[3], cross_angles[4]) >>

---------------------------------------------------------------------------
(* electricity.py: PowerOutlet *)

PowerOutletInit(anchor_point, length, orientation_angle, waterproof, high_voltage, low_current, color) ==
    [kind |-> "PowerOutlet", anchor_point |-> anchor_point,
     length |-> length, orientation_angle |-> orientation_angle,
     waterproof |-> waterproof, high_voltage |-> high_voltage,
     low_current |-> low_current, color |-> color]

OutletArcMiddle(self) ==
    LET half_length == Mul(Frac(1, 2), self.length)
        tip_angle_in_radians ==
            Radians(self.orientation_angle + STRAIGHT_ANGLE_IN_DEGREES)
    IN  << Add(self.anchor_point[1],
               Mul(half_length, Cos(tip_angle_in_radians))),
           Add(self.anchor_point[2],
               Mul(half_length, Sin(tip_angle_in_radians))) >>

OutletTipEnd(self) ==
    LET tip_angle_in_radians ==
            Radians(self.orientation_angle + STRAIGHT_ANGLE_IN_DEGREES)
    IN  << Add(self.anchor_point[1],
               Mul(self.length, Cos(tip_angle_in_radians))),
           Add(self.anchor_point[2],
               Mul(self.length, Sin(tip_angle_in_radians))) >>

\* the arc, the stem, the crossbar and the tip stroke
OutletBase(self) ==
    LET arc == Arc(self.anchor_point, self.length, self.length, 0,
                   self.orientation_angle,
                   self.orientation_angle + 2 * STRAIGHT_ANGLE_IN_DEGREES,
                   self.color)
        half_length == Mul(Frac(1, 2), self.length)
        arc_middle == OutletArcMiddle(self)
        orientation_angle_in_radians == Radians(self.orientation_angle)
        bar_left_end ==
            << Sub(arc_middle[1],
                   Mul(half_length, Cos(orientation_angle_in_radians))),
               Sub(arc_middle[2],
                   Mul(half_length, Sin(orientation_angle_in_radians))) >>
        bar_right_end ==
            << Add(arc_middle[1],
                   Mul(half_length, Cos(orientation_angle_in_radians))),
               Add(arc_middle[2],
                   Mul(half_length, Sin(orientation_angle_in_radians))) >>
        tip_end == OutletTipEnd(self)
    IN  << arc,
           Line2D(self.anchor_point, arc_middle, self.color),
           Line2D(bar_left_end, bar_right_end, self.color),
           Line2D(arc_middle, tip_end, self.color) >>

OutletWaterproof(self) ==
    LET half_length == Mul(Frac(1, 2), self.length)
        angle_in_degrees ==
            self.orientation_angle + ExactDiv(3 * STRAIGHT_ANGLE_IN_DEGREES, 2)
        angle_in_radians == Radians(angle_in_degrees)
        radius_end ==
            << Add(self.anchor_point[1],
                   Mul(half_length, Cos(angle_in_radians))),
               Add(self.anchor_point[2],
                   Mul(half_length, Sin(angle_in_radians))) >>
    IN  << Line2D(self.anchor_point, radius_end, self.color) >>

OutletHighVoltage(self) ==
    LET half_length == Mul(Frac(1, 2), self.length)
        orientation_angle_in_radians == Radians(self.orientation_angle)
        arc_middle == OutletArcMiddle(self)
        tip_end == OutletTipEnd(self)
        left_tip_end ==
            << Sub(tip_end[1],
                   Mul(Mul(Frac(1, 2), half_length),
                       Cos(orientation_angle_in_radians))),
               Sub(tip_end[2],
                   Mul(Mul(Frac(1, 2), half_length),
                       Sin(orientation_angle_in_radians))) >>
        right_tip_end ==
            << Add(tip_end[1],
                   Mul(Mul(Frac(1, 2), half_length),
                       Cos(orientation_angle_in_radians))),
               Add(tip_end[2],
                   Mul(Mul(Frac(1, 2), half_length),
                       Sin(orientation_angle_in_radians))) >>
    IN  << Line2D(arc_middle, left_tip_end, self.color),
           Line2D(arc_middle, right_tip_end, self.color) >>

OutletLowCurrent(self) ==
    << Circle(OutletTipEnd(self), Mul(Frac(1, 4), self.length), FALSE,
              self.color) >>

PowerOutletDrawExclusive(self) ==
    OutletBase(self)
    \o (IF self.waterproof THEN OutletWaterproof(self)
        ELSE IF self.high_voltage THEN OutletHighVoltage(self)
        ELSE IF self.low_current THEN OutletLowCurrent(self)
        ELSE << >>)

PowerOutletDraw(self) ==
    OutletBase(self)
    \o (IF self.waterproof THEN OutletWaterproof(self) ELSE << >>)
    \o (IF self.high_voltage THEN OutletHighVoltage(self) ELSE << >>)
    \o (IF self.low_current THEN OutletLowCurrent(self) ELSE << >>)

---------------------------------------------------------------------------
(* electricity.py: ElectricalCable *)

ElectricalCableInit(anchor_point, symbol_length, orientation_angle, n_arcs, color) ==
    [kind |-> "ElectricalCable", anchor_point |-> anchor_point,
     symbol_length |-> symbol_length,
     orientation_angle |-> orientation_angle, n_arcs |-> n_arcs,
     color |-> color]

CableRadiusOneArcMore(self) ==
    Div(self.symbol_length, Int2Num(2 * (self.n_arcs + 2)))
CableRadius(self) ==
    Div(self.symbol_length, Int2Num(2 * (self.n_arcs + 1)))

CableCircle(self) ==
    LET radius == CableRadius(self)
        tip_angle_in_radians ==
            Radians(self.orientation_angle + STRAIGHT_ANGLE_IN_DEGREES)
        circle_center ==
            << Add(self.anchor_point[1],
                   Mul(radius, Cos(tip_angle_in_radians))),
               Add(self.anchor_point[2],
                   Mul(radius, Sin(tip_angle_in_radians))) >>
    IN  Circle(circle_center, radius, TRUE, self.color)

CableArcAnglesSameSide(self, i) ==
    << self.orientation_angle - STRAIGHT_ANGLE_IN_DEGREES,
       self.orientation_angle + STRAIGHT_ANGLE_IN_DEGREES >>

\* <<theta1, theta2>> of the arc of index i (from 0)
CableArcAngles(self, i) ==
    << self.orientation_angle
         + (2 * (i % 2) - 1) * STRAIGHT_ANGLE_IN_DEGREES,
       self.orientation_angle
         + (2 * (i % 2) + 1) * STRAIGHT_ANGLE_IN_DEGREES >>

CableArc(self, i) ==
    LET radius == CableRadius(self)
        tip_angle_in_radians ==
            Radians(self.orientation_angle + STRAIGHT_ANGLE_IN_DEGREES)
        arc_center ==
            << Add(self.anchor_point[1],
                   Mul(Mul(Int2Num(3 + 2 * i), radius),
                       Cos(tip_angle_in_radians))),
               Add(self.anchor_point[2],
                   Mul(Mul(Int2Num(3 + 2 * i), radius),
                       Sin(tip_angle_in_radians))) >>
    IN  Arc(arc_center, Mul(Int2Num(2), radius), Mul(Int2Num(2), radius), 0,
            CableArcAngles(self, i)[1], CableArcAngles(self, i)[2],
            self.color)

ElectricalCableDraw(self) ==
    << CableCircle(self) >>
    \o [k \in 1..self.n_arcs |-> CableArc(self, k - 1)]

---------------------------------------------------------------------------
(* elements/lighting.py: LEDStrip *)

LEDLengths == {Frac(1, 10), Frac(1, 2), Int2Num(1)}

\* math.floor of a rational number
Floor(x) == x[1] \div Scale

LEDStripInit(anchor_point, length, width, orientation_angle, color) ==
    [kind |-> "LEDStrip", anchor_point |-> anchor_point, length |-> length,
     width |-> width, orientation_angle |-> orientation_angle,
     color |-> color, circle_diameter_to_width |-> Frac(6, 10)]

LEDStripRectangle(self) ==
    Rectangle(self.anchor_point, self.length, self.width,
              self.orientation_angle, FALSE, self.color)

LEDStripNCircles(self) == Floor(Div(self.length, self.width))

LEDStripCircleCenter(self, i) ==
    LET orientation_angle_in_radians == Radians(self.orientation_angle)
        n_circles == LEDStripNCircles(self)
        x_offset == Div(Mul(Frac(1, 2), self.length), Int2Num(n_circles))
        y_offset == Mul(Frac(1, 2), self.width)
    IN  << Add(Add(self.anchor_point[1],
                   Mul(Mul(Cos(orientation_angle_in_radians),
                           Int2Num(2 * i + 1)), x_offset)),
               Mul(Cos(orientation_angle_in_radians + ExactDiv(Pi, 2)),
                   y_offset)),
           Add(Add(self.anchor_point[2],
                   Mul(Mul(Sin(orientation_angle_in_radians),
                           Int2Num(2 * i + 1)), x_offset)),
               Mul(Sin(orientation_angle_in_radians + ExactDiv(Pi, 2)),
                   y_offset)) >>

LEDStripCircleRadiusFull(self) ==
    Mul(self.circle_diameter_to_width, self.width)
LEDStripCircleRadius(self) ==
    Mul(Mul(Frac(1, 2), self.circle_diameter_to_width), self.width)

LEDStripCircle(self, i) ==
    Circle(LEDStripCircleCenter(self, i), LEDStripCircleRadius(self), FALSE,
           self.color)

\* the patches added before draw returns or raises
LEDStripDraw(self) ==
    << LEDStripRectangle(self) >>
    \o [k \in 1..LEDStripNCircles(self) |-> LEDStripCircle(self, k - 1)]

\* x_offset = 0.5 * length / n_circles divides by zero for n_circles = 0
LEDStripRaises(self) ==
    IF LEDStripNCircles(self) = 0 THEN "ZeroDivisionError" ELSE "None"

---------------------------------------------------------------------------
(* elements/lighting.py: Switch *)

SwitchInit(anchor_point, symbol_length, orientation_angle, two_key, pass_through, color) ==
    [kind |-> "Switch", anchor_point |-> anchor_point,
     symbol_length |-> symbol_length,
     orientation_angle |-> orientation_angle, two_key |-> two_key,
     pass_through |-> pass_through, color |-> color]

SwitchRadius(self) == Div(self.symbol_length, Int2Num(4))

SwitchCircleCenter(self) ==
    LET radius == SwitchRadius(self)
        tip_angle_in_radians ==
            Radians(self.orientation_angle + RIGHT_ANGLE_IN_DEGREES)
    IN  << Add(self.anchor_point[1], Mul(radius, Cos(tip_angle_in_radians))),
           Add(self.anchor_point[2], Mul(radius, Sin(tip_angle_in_radians))) >>

SwitchCircle(self) ==
    Circle(SwitchCircleCenter(self), SwitchRadius(self), TRUE, self.color)

\* __draw_key_symbol__: the strokes of one key, in plot order
SwitchKeySymbol(self, circle_center, radius, key_angle_in_degrees) ==
    LET key_angle_in_radians == Radians(key_angle_in_degrees)
        orthogonal_angle_in_radians == key_angle_in_radians - ExactDiv(Pi, 2)
        key_corner ==
            << Add(circle_center[1],
                   Mul(Mul(Int2Num(3), radius), Cos(key_angle_in_radians))),
               Add(circle_center[2],
                   Mul(Mul(Int2Num(3), radius), Sin(key_angle_in_radians))) >>
        key_tip ==
            << Add(key_corner[1],
                   Mul(Mul(Frac(4, 3), radius),
                       Cos(orthogonal_angle_in_radians))),
               Add(key_corner[2],
                   Mul(Mul(Frac(4, 3), radius),
                       Sin(orthogonal_angle_in_radians))) >>
        middle_point ==
            << Add(circle_center[1],
                   Mul(Mul(Int2Num(2), radius), Cos(key_angle_in_radians))),
               Add(circle_center[2],
                   Mul(Mul(Int2Num(2), radius), Sin(key_angle_in_radians))) >>
        second_tip_end ==
            << Add(middle_point[1],
                   Mul(Mul(Frac(2, 3), radius),
                       Cos(orthogonal_angle_in_radians))),
               Add(middle_point[2],
                   Mul(Mul(Frac(2, 3), radius),
                       Sin(orthogonal_angle_in_radians))) >>
    IN  << Line2D(circle_center, key_corner, self.color),
           Line2D(key_corner, key_tip, self.color) >>
        \o (IF self.pass_through
            THEN << Line2D(middle_point, second_tip_end, self.color) >>
            ELSE << >>)

SwitchFirstKeyAngle(self) == self.orientation_angle + RIGHT_ANGLE_IN_DEGREES

SwitchSecondKeyAngleRight(self) ==
    self.orientation_angle + RIGHT_ANGLE_IN_DEGREES
SwitchSecondKeyAngle(self) ==
    self.orientation_angle + ExactDiv(RIGHT_ANGLE_IN_DEGREES, 2)

SwitchDraw(self) ==
    << SwitchCircle(self) >>
    \o SwitchKeySymbol(self, SwitchCircleCenter(self), SwitchRadius(self),
                       SwitchFirstKeyAngle(self))
    \o (IF self.two_key
        THEN SwitchKeySymbol(self, SwitchCircleCenter(self),
                             SwitchRadius(self), SwitchSecondKeyAngle(self))
        ELSE << >>)

---------------------------------------------------------------------------
(* elements/multipurpose.py: Line *)

Styles == {"solid", "dashed", "dotted", "dash_dot", "wavy", "-"}

style_to_matplotlib_code ==
    [solid |-> "-", dashed |-> "--", dotted |-> ".", dash_dot |-> "-."]

\* the values matplotlib accepts for the `ls` argument of Axes.plot
MatplotlibLineStyles ==
    {"-", "--", "-.", ":", "None", " ", "",
     "solid", "dashed", "dashdot", "dotted"}

\* a line segment plotted with an explicit line style
Line2DStyled(p1, p2, ls, color) ==
    [kind |-> "Line2D", p1 |-> p1, p2 |-> p2, ls |-> ls, color |-> color]

\* the dictionary lookup of __init__ fails for any other style
LineInitRaisesOnDotted(style) ==
    IF style \in {"solid", "dashed", "dash_dot"} THEN "None" ELSE "KeyError"
LineInitRaises(style) ==
    IF style \in DOMAIN style_to_matplotlib_code THEN "None" ELSE "KeyError"

LineInit(first_point, second_point, style, color) ==
    [kind |-> "Line", first_point |-> first_point,
     second_point |-> second_point,
     style |-> style_to_matplotlib_code[style], color |-> color]

\* Axes.plot rejects a line style outside its vocabulary with ValueError
LineRaises(self) ==
    IF self.style \in MatplotlibLineStyles THEN "None" ELSE "ValueError"

LineDraw(self) ==
    IF LineRaises(self) = "None"
    THEN << Line2DStyled(self.first_point, self.second_point, self.style,
                         self.color) >>
    ELSE << >>

---------------------------------------------------------------------------
(* elements/lighting.py: CeilingLamp *)

CeilingLampInit(anchor_point, symbol_diameter, color) ==
    [kind |-> "CeilingLamp", anchor_point |-> anchor_point,
     symbol_diameter |-> symbol_diameter, color |-> color]

CeilingLampDraw(self) ==
    LET radius == Mul(Frac(1, 2), self.symbol_diameter)
        reach == Mul(Mul(Frac(1, 2), Sqrt2), radius)
    IN  << Circle(self.anchor_point, radius, FALSE, self.color),
           Line2D(<<Sub(self.anchor_point[1], reach),
                    Sub(self.anchor_point[2], reach)>>,
                  <<Add(self.anchor_point[1], reach),
                    Add(self.anchor_point[2], reach)>>, self.color),
           Line2D(<<Sub(self.anchor_point[1], reach),
                    Add(self.anchor_point[2], reach)>>,
                  <<Add(self.anchor_point[1], reach),
                    Sub(self.anchor_point[2], reach)>>, self.color) >>

---------------------------------------------------------------------------
(* elements/multipurpose.py: Polygon *)

VertexLists ==
    { << Origin, <<Int2Num(1), Zero>>, <<Zero, Int2Num(1)>> >>,
      << Origin, <<Int2Num(2), Zero>>, <<Int2Num(2), Int2Num(-1)>>,
         <<Zero, Int2Num(-1)>> >> }

PolygonInit(vertices, color) ==
    [kind |-> "Polygon", vertices |-> vertices, color |-> color]

PolygonDraw(self) == << Polygon(self.vertices, self.color) >>

---------------------------------------------------------------------------
(* Element.draw: dispatch on the class of the element *)

DrawOf(self) ==
    CASE self.kind = "Wall" -> WallDraw(self)
      [] self.kind = "Window" -> WindowDraw(self)
      [] self.kind = "Door" -> DoorDraw(self)
      [] self.kind = "DimensionArrow" -> DimensionArrowDraw(self)
      [] self.kind = "WallLamp" -> WallLampDraw(self)
      [] self.kind = "PowerOutlet" -> PowerOutletDraw(self)
      [] self.kind = "ElectricalCable" -> ElectricalCableDraw(self)
      [] self.kind = "LEDStrip" -> LEDStripDraw(self)
      [] self.kind = "Switch" -> SwitchDraw(self)
      [] self.kind = "Line" -> LineDraw(self)
      [] self.kind = "CeilingLamp" -> CeilingLampDraw(self)
      [] self.kind = "Polygon" -> PolygonDraw(self)

\* the exception element.draw(ax) ends with, or "None"
DrawRaises(self) ==
    CASE self.kind = "LEDStrip" -> LEDStripRaises(self)
      [] self.kind = "Line" -> LineRaises(self)
      [] OTHER -> "None"

---------------------------------------------------------------------------
(* Optional values, fractions, numpy.arange *)

\* Python's None, and a value that is present
None == << >>
Some(x) == << x >>

RECURSIVE GCD(_, _)
GCD(a, b) == IF b = 0 THEN a ELSE GCD(b, a % b)

\* page sizes are fractions <<n, d>> in lowest terms: the factor 127 of
\* METERS_PER_INCH does not divide Scale
RatNorm(n, d) ==
    LET g == GCD(IF n < 0 THEN -n ELSE n, d)
    IN  << n \div g, d \div g >>
RatOf(x) == IF IsRational(x) THEN RatNorm(x[1], Scale)
            ELSE CHOOSE r \in {} : TRUE
RatMul(r, s) == RatNorm(r[1] * s[1], r[2] * s[2])
RatDiv(r, s) == RatNorm(r[1] * s[2], r[2] * s[1])

\* math.ceil of a rational number
Ceil(x) == -((-x[1]) \div Scale)

\* numpy.arange(start, stop, step) for step > 0:
\* ceil((stop - start) / step) values start + k * step
Arange(start, stop, step) ==
    LET n == Ceil(Div(Sub(stop, start), step))
    IN  [k \in 1..n |-> Add(start, Mul(Int2Num(k - 1), step))]

---------------------------------------------------------------------------
(* floor_plan.py: FloorPlan *)

METERS_PER_INCH == RatNorm(254, 10000)

NoPlan == [title |-> "NoPlan"]

FloorPlanFigSizeMetres(length, scale_numerator, scale_denominator) ==
    RatMul(RatOf(length), RatNorm(scale_numerator, scale_denominator))
FloorPlanFigSize(length, scale_numerator, scale_denominator) ==
    LET scale == RatNorm(scale_numerator, scale_denominator)
    IN  RatDiv(RatMul(RatOf(length), scale), METERS_PER_INCH)

FloorPlanTicksInclusive(low, high, step) ==
    IF step = None THEN None
    ELSE Some(Arange(low, Add(high, step[1]), step[1]))
FloorPlanTicks(low, high, step) ==
    IF step = None THEN None ELSE Some(Arange(low, high, step[1]))

FloorPlanGrid(grid_major_step, grid_minor_step) ==
    (IF grid_major_step = None THEN {}
     ELSE {[which |-> "major", alpha |-> Frac(5, 10)]})
    \cup (IF grid_minor_step = None THEN {}
          ELSE {[which |-> "minor", alpha |-> Frac(2, 10)]})

\* `number` is the number pyplot gives the new figure: 1, 2, ...
FloorPlanInit(number, bottom_left_corner, top_right_corner, scale_numerator, scale_denominator, grid_major_step, grid_minor_step) ==
    LET horizontal_len == Sub(top_right_corner[1], bottom_left_corner[1])
        vertical_len == Sub(top_right_corner[2], bottom_left_corner[2])
        fig_width == FloorPlanFigSize(horizontal_len, scale_numerator,
                                      scale_denominator)
        fig_height == FloorPlanFigSize(vertical_len, scale_numerator,
                                       scale_denominator)
    IN  [fig |-> [number |-> number, figsize |-> <<fig_width, fig_height>>,
                  texts |-> << >>],
         ax |-> [aspect |-> "equal",
                 xticks |-> FloorPlanTicks(bottom_left_corner[1],
                                           top_right_corner[1],
                                           grid_major_step),
                 yticks |-> FloorPlanTicks(bottom_left_corner[2],
                                           top_right_corner[2],
                                           grid_major_step),
                 minor_xticks |-> FloorPlanTicks(bottom_left_corner[1],
                                                 top_right_corner[1],
                                                 grid_minor_step),
                 minor_yticks |-> FloorPlanTicks(bottom_left_corner[2],
                                                 top_right_corner[2],
                                                 grid_minor_step),
                 grid |-> FloorPlanGrid(grid_major_step, grid_minor_step),
                 artists |-> << >>],
         title |-> None,
         elements |-> << >>]

FloorPlanAddTitleKeepFirst(self, text, font_size, rel_x, rel_y) ==
    [self EXCEPT
        !.fig.texts = Append(@, [x |-> rel_x, y |-> rel_y, text |-> text,
                                 horizontalalignment |-> "center",
                                 size |-> font_size]),
        !.title = IF @ = None THEN Some(text) ELSE @]
FloorPlanAddTitle(self, text, font_size, rel_x, rel_y) ==
    [self EXCEPT
        !.fig.texts = Append(@, [x |-> rel_x, y |-> rel_y, text |-> text,
                                 horizontalalignment |-> "center",
                                 size |-> font_size]),
        !.title = Some(text)]

\* add_element: the element joins the paint-order sequence and is drawn at
\* once on the axes of the plan
FloorPlanAddElement(self, elem) ==
    [self EXCEPT !.elements = Append(@, elem),
                 !.ax.artists = @ \o DrawOf(elem)]

---------------------------------------------------------------------------
(* project.py: Project *)

NoProject == [dpi |-> "NoProject"]

ProjectInit(plans, dpi) == [floor_plans |-> plans, dpi |-> dpi]

\* what savefig puts on a page or into a file: the figure with its axes
Page(plan, dpi) ==
    [fig |-> plan.fig, ax |-> plan.ax, dpi |-> dpi]

\* render_to_pdf: the pages of the document PdfPages writes
ProjectPdfPagesFirstOnly(self) ==
    [i \in 1..Len(self.floor_plans) |-> Page(self.floor_plans[1], self.dpi)]
ProjectPdfPages(self) ==
    [i \in 1..Len(self.floor_plans) |-> Page(self.floor_plans[i], self.dpi)]

\* str.endswith
EndsWith(text, suffix) ==
    /\ Len(text) >= Len(suffix)
    /\ SubSeq(text, Len(text) - Len(suffix) + 1, Len(text)) = suffix

\* the file name render_to_png hands to savefig for the plan at index i
\* (counted from 0)
ProjectPngTitle(plan, i) ==
    LET title == IF plan.title = None \/ plan.title[1] = << >>
                 THEN IntStr(i) \o <<".", "p", "n", "g">>
                 ELSE plan.title[1]
    IN  IF ~EndsWith(title, <<"p", "n", "g">>)
        THEN title \o <<".", "p", "n", "g">>
        ELSE title

\* os.path.splitext(name)[1]: from the last dot on, leading dots aside
SplitExt(name) ==
    LET dots == {i \in DOMAIN name :
                    /\ name[i] = "."
                    /\ \E j \in 1..(i - 1) : name[j] # "."}
    IN  IF dots = {} THEN << >>
        ELSE SubSeq(name, CHOOSE i \in dots : \A j \in dots : j <= i,
                    Len(name))

\* str.rstrip('.')
RECURSIVE RStripDots(_)
RStripDots(name) ==
    IF Len(name) > 0 /\ name[Len(name)] = "."
    THEN RStripDots(SubSeq(name, 1, Len(name) - 1))
    ELSE name

\* the formats the Agg canvas of matplotlib can write
SavefigFormats ==
    { <<"p", "n", "g">>, <<"p", "d", "f">>, <<"s", "v", "g">>,
      <<"p", "s">>, <<"e", "p", "s">>, <<"j", "p", "g">>,
      <<"j", "p", "e", "g">>, <<"t", "i", "f">>, <<"t", "i", "f", "f">>,
      <<"w", "e", "b", "p">>, <<"r", "a", "w">>, <<"r", "g", "b", "a">>,
      <<"p", "g", "f">>, <<"s", "v", "g", "z">> }

\* Figure.savefig(name): the format is the extension of the name; a name
\* without extension gets the default one, '.png'; an unknown format is
\* rejected with ValueError
SavefigRaises(name) ==
    IF SplitExt(name) = << >> \/ Tail(SplitExt(name)) \in SavefigFormats
    THEN "None"
    ELSE "ValueError"
SavefigName(name) ==
    IF SplitExt(name) = << >>
    THEN RStripDots(name) \o <<".", "p", "n", "g">>
    ELSE name

\* a directory is a set of files with distinct names; writing a name
\* that exists replaces the file
WriteFile(dir, name, page) ==
    {f \in dir : f.name # name} \cup {[name |-> name, page |-> page]}

\* title = floor_plan.title or ...; title += '.png': the file name is a
\* local string of the loop, the floor plan keeps the title it has
ProjectPngTitledWrittenBack(plan, title) ==
    [plan EXCEPT !.title = Some(title)]
ProjectPngTitled(plan, title) ==
    plan

\* the loop of render_to_png from index i (counted from 0) on: the files
\* in the directory and the project when the loop ends or savefig raises
RECURSIVE ProjectPngLoop(_, _, _)
ProjectPngLoop(self, dir, i) ==
    IF i >= Len(self.floor_plans)
    THEN [dir |-> dir, raised |-> "None", self |-> self]
    ELSE LET plan == self.floor_plans[i + 1]
             title == ProjectPngTitle(plan, i)
             after == [self EXCEPT
                          !.floor_plans[i + 1] = ProjectPngTitled(plan, title)]
         IN  IF SavefigRaises(title) # "None"
             THEN [dir |-> dir, raised |-> SavefigRaises(title),
                   self |-> after]
             ELSE ProjectPngLoop(after,
                                 WriteFile(dir, SavefigName(title),
                                           Page(plan, self.dpi)),
                                 i + 1)

\* render_to_png: os.mkdir makes an absent directory, then the loop runs
ProjectRenderToPng(self, output_dir) ==
    ProjectPngLoop(self, IF output_dir = None THEN {} ELSE output_dir[1], 0)

---------------------------------------------------------------------------
(* The state machine: one constructor call, then draw calls on one axes *)

ElementIdle ==
    /\ element = NoElement
    /\ ax = << >>
    /\ raised = "None"
    /\ call = NoCall
    /\ draws = 0

PlanIdle ==
    /\ floor_plan = NoPlan
    /\ layout = None
    /\ calls = << >>
    /\ title_calls = << >>

ProjectIdle ==
    /\ project = NoProject
    /\ pdf = None
    /\ rendered = {}
    /\ render_calls = << >>

\* main has not been started
NoSettings == [project |-> "NoSettings"]
NotStarted == [at |-> "NotStarted"]
MainIdle ==
    /\ config = NoSettings
    /\ settings = NoSettings
    /\ pc = NotStarted
    /\ floor_plans = << >>

Init ==
    /\ ElementIdle
    /\ PlanIdle
    /\ ProjectIdle
    /\ MainIdle
    /\ png_dir = None

Fresh == call = NoCall

NewWall ==
    /\ Fresh
    /\ \E a \in Anchors, l \in Lengths, t \in Thicknesses, g \in Angles,
          c \in Colors :
        /\ call' = [class |-> "Wall", anchor_point |-> a, length |-> l,
                    thickness |-> t, orientation_angle |-> g, color |-> c]
        /\ element' = WallInit(a, l, t, g, c)
        /\ raised' = "None"
    /\ UNCHANGED <<ax, draws, planVars, projectVars, mainVars>>

NewWindow ==
    /\ Fresh
    /\ \E a \in Anchors, l \in Lengths, ot \in Thicknesses,
          st \in Thicknesses, g \in Angles, c \in Colors :
        /\ call' = [class |-> "Window", anchor_point |-> a, length |-> l,
                    overall_thickness |-> ot, single_line_thickness |-> st,
                    orientation_angle |-> g, color |-> c]
        /\ IF WindowInvalid(ot, st)
           THEN /\ raised' = "ValueError"
                /\ element' = NoElement
           ELSE /\ raised' = "None"
                /\ element' = WindowInit(a, l, ot, st, g, c)
    /\ UNCHANGED <<ax, draws, planVars, projectVars, mainVars>>

NewDoor ==
    /\ Fresh
    /\ \E a \in Anchors, dww \in Widths, dw \in Widths, t \in Thicknesses,
          g \in Angles, r \in BOOLEAN, c \in Colors :
        /\ call' = [class |-> "Door", anchor_point |-> a,
                    doorway_width |-> dww, door_width |-> dw,
                    thickness |-> t, orientation_angle |-> g,
                    to_the_right |-> r, color |-> c]
        /\ element' = DoorInit(a, dww, dw, t, g, r, c)
        /\ raised' = "None"
    /\ UNCHANGED <<ax, draws, planVars, projectVars, mainVars>>

NewDimensionArrow ==
    /\ Fresh
    /\ \E a \in Anchors, l \in HalfLengths, g \in Angles, w \in ArrowWidths,
          t \in TipLengths, f \in FontSizes, ab \in BOOLEAN, c \in Colors :
        /\ call' = [class |-> "DimensionArrow", anchor_point |-> a,
                    length |-> l, orientation_angle |-> g, width |-> w,
                    tip_length |-> t, font_size |-> f,
                    annotate_above |-> ab, color |-> c]
        /\ element' = DimensionArrowInit(a, l, g, w, t, f, ab, c)
        /\ raised' = "None"
    /\ UNCHANGED <<ax, draws, planVars, projectVars, mainVars>>

NewWallLamp ==
    /\ Fresh
    /\ \E a \in Anchors, d \in SymbolSizes, g \in Angles,
          r \in StubDepths, c \in Colors :
        /\ call' = [class |-> "WallLamp", anchor_point |-> a,
                    symbol_diameter |-> d, orientation_angle |-> g,
                    stub_relative_depth |-> r, color |-> c]
        /\ element' = WallLampInit(a, d, g, r, c)
        /\ raised' = "None"
    /\ UNCHANGED <<ax, draws, planVars, projectVars, mainVars>>

NewPowerOutlet ==
    /\ Fresh
    /\ \E a \in Anchors, l \in SymbolSizes, g \in Angles, w \in BOOLEAN,
          h \in BOOLEAN, lc \in BOOLEAN, c \in Colors :
        /\ call' = [class |-> "PowerOutlet", anchor_point |-> a,
                    length |-> l, orientation_angle |-> g,
                    waterproof |-> w, high_voltage |-> h,
                    low_current |-> lc, color |-> c]
        /\ element' = PowerOutletInit(a, l, g, w, h, lc, c)
        /\ raised' = "None"
    /\ UNCHANGED <<ax, draws, planVars, projectVars, mainVars>>

NewElectricalCable ==
    /\ Fresh
    /\ \E a \in Anchors, l \in SymbolSizes, g \in Angles,
          n \in 0..MaxArcs, c \in Colors :
        /\ call' = [class |-> "ElectricalCable", anchor_point |-> a,
                    symbol_length |-> l, orientation_angle |-> g,
                    n_arcs |-> n, color |-> c]
        /\ element' = ElectricalCableInit(a, l, g, n, c)
        /\ raised' = "None"
    /\ UNCHANGED <<ax, draws, planVars, projectVars, mainVars>>

NewLEDStrip ==
    /\ Fresh
    /\ \E a \in Anchors, l \in LEDLengths, w \in Thicknesses, g \in Angles,
          c \in Colors :
        /\ call' = [class |-> "LEDStrip", anchor_point |-> a, length |-> l,
                    width |-> w, orientation_angle |-> g, color |-> c]
        /\ element' = LEDStripInit(a, l, w, g, c)
        /\ raised' = "None"
    /\ UNCHANGED <<ax, draws, planVars, projectVars, mainVars>>

NewSwitch ==
    /\ Fresh
    /\ \E a \in Anchors, l \in SymbolSizes, g \in Angles, t \in BOOLEAN,
          p \in BOOLEAN, c \in Colors :
        /\ call' = [class |-> "Switch", anchor_point |-> a,
                    symbol_length |-> l, orientation_angle |-> g,
                    two_key |-> t, pass_through |-> p, color |-> c]
        /\ element' = SwitchInit(a, l, g, t, p, c)
        /\ raised' = "None"
    /\ UNCHANGED <<ax, draws, planVars, projectVars, mainVars>>

NewLine ==
    /\ Fresh
    /\ \E p \in Anchors, q \in Anchors, s \in Styles, c \in Colors :
        /\ call' = [class |-> "Line", first_point |-> p, second_point |-> q,
                    style |-> s, color |-> c]
        /\ raised' = LineInitRaises(s)
        /\ element' = IF LineInitRaises(s) = "None"
                      THEN LineInit(p, q, s, c)
                      ELSE NoElement
    /\ UNCHANGED <<ax, draws, planVars, projectVars, mainVars>>

NewCeilingLamp ==
    /\ Fresh
    /\ \E a \in Anchors, d \in SymbolSizes, c \in Colors :
        /\ call' = [class |-> "CeilingLamp", anchor_point |-> a,
                    symbol_diameter |-> d, color |-> c]
        /\ element' = CeilingLampInit(a, d, c)
        /\ raised' = "None"
    /\ UNCHANGED <<ax, draws, planVars, projectVars, mainVars>>

NewPolygon ==
    /\ Fresh
    /\ \E v \in VertexLists, c \in Colors :
        /\ call' = [class |-> "Polygon", vertices |-> v, color |-> c]
        /\ element' = PolygonInit(v, c)
        /\ raised' = "None"
    /\ UNCHANGED <<ax, draws, planVars, projectVars, mainVars>>

\* element.draw(ax): the primitives it adds stay on the axes even when the
\* call ends with an exception
Draw ==
    /\ element # NoElement
    /\ draws < MaxDraws
    /\ ax' = ax \o DrawOf(element)
    /\ raised' = DrawRaises(element)
    /\ draws' = draws + 1
    /\ UNCHANGED <<element, call, planVars, projectVars, mainVars>>

Next ==
    \/ NewWall
    \/ NewWindow
    \/ NewDoor
    \/ NewDimensionArrow
    \/ NewWallLamp
    \/ NewPowerOutlet
    \/ NewElectricalCable
    \/ NewLEDStrip
    \/ NewSwitch
    \/ NewLine
    \/ NewCeilingLamp
    \/ NewPolygon
    \/ Draw

Spec == Init /\ [][Next]_vars

---------------------------------------------------------------------------
(* The floor plan machine: main builds one FloorPlan, gives it a title and
   adds elements to it *)

MaxElements == 2   \* add_element calls on one floor plan

Corners == {<<Origin, <<Int2Num(5), Int2Num(3)>>>>,
            <<Origin, <<Int2Num(4), Frac(5, 2)>>>>,
            <<<<Int2Num(-1), Frac(1, 2)>>, <<Int2Num(3), Int2Num(3)>>>>,
            <<<<Int2Num(-1), Frac(1, 2)>>, <<Int2Num(4), Frac(5, 2)>>>>}
ScaleFractions == {<<1, 100>>, <<1, 50>>, <<3, 200>>}
MajorSteps == {None, Some(Int2Num(1)), Some(Int2Num(2))}
MinorSteps == {None, Some(Frac(1, 4)), Some(Frac(1, 2))}
MaxTitles == 2     \* add_title calls on a floor plan
\* the title parameters of a configuration: rel_x and rel_y are the
\* defaults of add_title or given by the caller
TitleParams ==
    { [text |-> <<"P", "l", "a", "n">>, font_size |-> 10,
       rel_x |-> Frac(1, 2), rel_y |-> Frac(95, 100)],
      [text |-> <<"A">>, font_size |-> 8,
       rel_x |-> Frac(1, 4), rel_y |-> Frac(9, 10)] }

SampleElements ==
    { WallInit(Origin, Int2Num(1), Frac(1, 10), 0, "black"),
      SwitchInit(<<Int2Num(2), Int2Num(-1)>>, Frac(1, 2), 30, FALSE, FALSE,
                 "black"),
      LineInit(Origin, <<Int2Num(2), Int2Num(-1)>>, "dashed", "black"),
      LEDStripInit(Origin, Frac(1, 10), Frac(2, 10), 0, "black") }

PlanInit ==
    /\ ElementIdle
    /\ PlanIdle
    /\ ProjectIdle
    /\ MainIdle
    /\ png_dir = None

NewFloorPlan ==
    /\ floor_plan = NoPlan
    /\ \E c \in Corners, s \in ScaleFractions, major \in MajorSteps,
          minor \in MinorSteps :
        /\ layout' = [bottom_left_corner |-> c[1], top_right_corner |-> c[2],
                      scale_numerator |-> s[1], scale_denominator |-> s[2],
                      grid_major_step |-> major, grid_minor_step |-> minor]
        /\ floor_plan' = FloorPlanInit(1, c[1], c[2], s[1], s[2], major,
                                       minor)
    /\ UNCHANGED <<calls, title_calls, raised, elementVars, projectVars,
                   mainVars>>

\* add_title may be called again on a titled floor plan
AddTitle ==
    /\ floor_plan # NoPlan
    /\ Len(title_calls) < MaxTitles
    /\ calls = << >>
    /\ \E title_params \in TitleParams :
        /\ floor_plan' = FloorPlanAddTitle(floor_plan, title_params.text,
                                           title_params.font_size,
                                           title_params.rel_x,
                                           title_params.rel_y)
        /\ title_calls' = Append(title_calls, title_params)
    /\ UNCHANGED <<layout, calls, raised, elementVars, projectVars, mainVars>>

\* main hands the next element to add_element; an exception of its draw
\* ends the program
AddElementNotAdded ==
    /\ floor_plan # NoPlan
    /\ raised = "None"
    /\ Len(calls) < MaxElements
    /\ \E e \in SampleElements :
        /\ calls' = Append(calls, e)
        /\ floor_plan' = floor_plan
        /\ raised' = "None"
    /\ UNCHANGED <<layout, title_calls, elementVars, projectVars, mainVars>>
AddElement ==
    /\ floor_plan # NoPlan
    /\ raised = "None"
    /\ Len(calls) < MaxElements
    /\ \E e \in SampleElements :
        /\ calls' = Append(calls, e)
        /\ floor_plan' = FloorPlanAddElement(floor_plan, e)
        /\ raised' = DrawRaises(e)
    /\ UNCHANGED <<layout, title_calls, elementVars, projectVars, mainVars>>

PlanNext ==
    \/ NewFloorPlan
    \/ AddTitle
    \/ AddElement

PlanSpec == PlanInit /\ [][PlanNext]_vars

---------------------------------------------------------------------------
(* The project machine: a Project over finished floor plans is rendered to
   one PDF document and to PNG files in a directory *)

MaxPlans == 2      \* floor plans of a project
MaxRenders == 3    \* render calls on a project

Titles ==
    { None, Some(<< >>), Some(<<"p", "l", "a", "n">>),
      Some(<<"p", "l", "a", "n", ".", "p", "n", "g">>),
      Some(<<"p", "l", "a", "n", "_", "p", "n", "g">>),
      Some(<<"p", "l", "a", "n", ".", "a", "p", "n", "g">>),
      Some(<<"1">>), Some(<<"1", ".", "p", "n", "g">>) }
Dpis == {"figure", "300"}

\* the floor plan main builds with the default layout and the given title
PlanWithTitle(number, title) ==
    LET plain == FloorPlanInit(number, Origin, <<Int2Num(5), Int2Num(3)>>,
                               1, 100, None, None)
    IN  IF title = None THEN plain
        ELSE FloorPlanAddTitle(plain, title[1], 10, Frac(1, 2), Frac(95, 100))

\* the output directory is absent or empty when the program starts
ProjectMachineInit ==
    /\ ElementIdle
    /\ PlanIdle
    /\ ProjectIdle
    /\ MainIdle
    /\ png_dir \in {None, Some({})}

NewProject ==
    /\ project = NoProject
    /\ \E n \in 0..MaxPlans, dpi \in Dpis :
        \E titles \in [1..n -> Titles] :
            project' = ProjectInit([i \in 1..n |->
                                       PlanWithTitle(i, titles[i])], dpi)
    /\ UNCHANGED <<pdf, png_dir, rendered, render_calls, raised,
                   elementVars, planVars, mainVars>>

\* render_to_pdf and render_to_png may be called again and again on one
\* project, until a call raises
RenderToPdf ==
    /\ project # NoProject
    /\ raised = "None"
    /\ Len(render_calls) < MaxRenders
    /\ pdf' = Some(ProjectPdfPages(project))
    /\ rendered' = rendered \cup {"pdf"}
    /\ render_calls' = Append(render_calls, "pdf")
    /\ UNCHANGED <<project, png_dir, raised, elementVars, planVars, mainVars>>

RenderToPng ==
    /\ project # NoProject
    /\ raised = "None"
    /\ Len(render_calls) < MaxRenders
    /\ png_dir' = Some(ProjectRenderToPng(project, png_dir).dir)
    /\ raised' = ProjectRenderToPng(project, png_dir).raised
    /\ project' = ProjectRenderToPng(project, png_dir).self
    /\ rendered' = rendered \cup {"png"}
    /\ render_calls' = Append(render_calls, "png")
    /\ UNCHANGED <<pdf, elementVars, planVars, mainVars>>

ProjectNext ==
    \/ NewProject
    \/ RenderToPdf
    \/ RenderToPng

ProjectSpec == ProjectMachineInit /\ [][ProjectNext]_vars

---------------------------------------------------------------------------
(* __main__.py: main builds the floor plans of a configuration, then the
   project, and renders it *)

\* create_elements_registry: the class behind each element type name
elements_registry ==
    [ceiling_lamp |-> "CeilingLamp", dimension_arrow |-> "DimensionArrow",
     door |-> "Door", electrical_cable |-> "ElectricalCable",
     led_strip |-> "LEDStrip", line |-> "Line", polygon |-> "Polygon",
     power_outlet |-> "PowerOutlet", switch |-> "Switch",
     text_box |-> "TextBox", wall |-> "Wall", wall_lamp |-> "WallLamp",
     window |-> "Window"]

\* element_params.pop('type'): the dictionary without its key 'type'
PopType(element_params) ==
    [k \in DOMAIN element_params \ {"type"} |-> element_params[k]]

\* element_class(**element_params): the exception of the constructor
ElementInitRaises(class, kw) ==
    CASE class = "Window" ->
            IF WindowInvalid(kw.overall_thickness, kw.single_line_thickness)
            THEN "ValueError" ELSE "None"
      [] class = "Line" -> LineInitRaises(kw.style)
      [] OTHER -> "None"

\* element_class(**element_params): the element built from the keyword
\* arguments (TextBox is registered, its class is not in the sources)
ElementInit(class, kw) ==
    CASE class = "Wall" ->
            WallInit(kw.anchor_point, kw.length, kw.thickness,
                     kw.orientation_angle, kw.color)
      [] class = "Window" ->
            WindowInit(kw.anchor_point, kw.length, kw.overall_thickness,
                       kw.single_line_thickness, kw.orientation_angle,
                       kw.color)
      [] class = "Door" ->
            DoorInit(kw.anchor_point, kw.doorway_width, kw.door_width,
                     kw.thickness, kw.orientation_angle, kw.to_the_right,
                     kw.color)
      [] class = "DimensionArrow" ->
            DimensionArrowInit(kw.anchor_point, kw.length,
                               kw.orientation_angle, kw.width, kw.tip_length,
                               kw.font_size, kw.annotate_above, kw.color)
      [] class = "WallLamp" ->
            WallLampInit(kw.anchor_point, kw.symbol_diameter,
                         kw.orientation_angle, kw.stub_relative_depth,
                         kw.color)
      [] class = "PowerOutlet" ->
            PowerOutletInit(kw.anchor_point, kw.length, kw.orientation_angle,
                            kw.waterproof, kw.high_voltage, kw.low_current,
                            kw.color)
      [] class = "ElectricalCable" ->
            ElectricalCableInit(kw.anchor_point, kw.symbol_length,
                                kw.orientation_angle, kw.n_arcs, kw.color)
      [] class = "LEDStrip" ->
            LEDStripInit(kw.anchor_point, kw.length, kw.width,
                         kw.orientation_angle, kw.color)
      [] class = "Switch" ->
            SwitchInit(kw.anchor_point, kw.symbol_length,
                       kw.orientation_angle, kw.two_key, kw.pass_through,
                       kw.color)
      [] class = "Line" ->
            LineInit(kw.first_point, kw.second_point, kw.style, kw.color)
      [] class = "CeilingLamp" ->
            CeilingLampInit(kw.anchor_point, kw.symbol_diameter, kw.color)
      [] class = "Polygon" -> PolygonInit(kw.vertices, kw.color)

\* elements_registry[element_params.pop('type')] and the constructor call:
\* the exception raised, the dictionary as pop leaves it, the element
MainBuildElement(element_params) ==
    IF "type" \notin DOMAIN element_params
    THEN [raised |-> "KeyError", params |-> element_params,
          element |-> NoElement]
    ELSE LET name == element_params.type
             kw == PopType(element_params)
         IN  IF name \notin DOMAIN elements_registry
             THEN [raised |-> "KeyError", params |-> kw,
                   element |-> NoElement]
             ELSE IF ElementInitRaises(elements_registry[name], kw) # "None"
             THEN [raised |-> ElementInitRaises(elements_registry[name], kw),
                   params |-> kw, element |-> NoElement]
             ELSE [raised |-> "None", params |-> kw,
                   element |-> ElementInit(elements_registry[name], kw)]

\* dict.get(key, []) on the reusable element sets
ReusableSet(loaded, set_name) ==
    IF set_name \in DOMAIN loaded.reusable_elements
    THEN loaded.reusable_elements[set_name]
    ELSE << >>

\* main has no exception handler: an exception leaves main at once
MainRaiseCaught(position) ==
    [position EXCEPT !.elem = @ + 1]
MainRaise(position) ==
    [position EXCEPT !.at = "raised"]

---------------------------------------------------------------------------
(* The main machine: one run of main over a configuration file *)

DefaultLayout ==
    [bottom_left_corner |-> Origin,
     top_right_corner |-> <<Int2Num(5), Int2Num(3)>>,
     scale_numerator |-> 1, scale_denominator |-> 100,
     grid_major_step |-> None, grid_minor_step |-> None]

\* the reusable element set 'common' of the configurations
CommonElements ==
    << [type |-> "wall", anchor_point |-> Origin, length |-> Int2Num(3),
        thickness |-> Frac(2, 10), orientation_angle |-> 0,
        color |-> "black"],
       [type |-> "ceiling_lamp", anchor_point |-> <<Int2Num(2), Int2Num(1)>>,
        symbol_diameter |-> Frac(1, 2), color |-> "black"] >>

\* the elements a floor plan of the configurations lists on its own: a
\* wall, a window with too thick lines, a line of unknown style, an element
\* of unregistered type
ElementParams ==
    { [type |-> "wall", anchor_point |-> Origin, length |-> Int2Num(1),
       thickness |-> Frac(1, 10), orientation_angle |-> 90,
       color |-> "black"],
      [type |-> "window", anchor_point |-> Origin, length |-> Int2Num(1),
       overall_thickness |-> Frac(2, 10),
       single_line_thickness |-> Frac(1, 10), orientation_angle |-> 0,
       color |-> "black"],
      [type |-> "line", first_point |-> Origin,
       second_point |-> <<Int2Num(2), Int2Num(-1)>>, style |-> "wavy",
       color |-> "black"],
      [type |-> "sofa", anchor_point |-> Origin] }

FloorPlanParams ==
    { [layout |-> None, title |-> t, inherited_elements |-> h,
       elements |-> e] :
        t \in {None, Some([text |-> <<"P", "l", "a", "n">>,
                           font_size |-> 10])},
        h \in { << >>, <<"common">> },
        e \in { << >> } \cup { <<x>> : x \in ElementParams } }

\* pdf_file and png_dir of the project settings: at least one is given
Outputs ==
    { <<Some(<<"o", "u", "t", ".", "p", "d", "f">>), Some(<<"o", "u", "t">>)>>,
      <<Some(<<"o", "u", "t", ".", "p", "d", "f">>), None>>,
      <<None, Some(<<"o", "u", "t">>)>> }

Configs ==
    { [default_layout |-> DefaultLayout, floor_plans |-> plans,
       reusable_elements |-> [common |-> CommonElements],
       project |-> [dpi |-> "300", pdf_file |-> out[1], png_dir |-> out[2]]] :
        plans \in UNION { [1..n -> FloorPlanParams] : n \in 1..MaxPlans },
        out \in Outputs }

\* main has loaded the settings and made the registry and the empty list;
\* the output directory does not exist yet
MainInit ==
    /\ ElementIdle
    /\ PlanIdle
    /\ ProjectIdle
    /\ png_dir = None
    /\ config \in Configs
    /\ settings = config
    /\ pc = [at |-> "plan", plan |-> 1, set |-> 1, elem |-> 1]
    /\ floor_plans = << >>

\* FloorPlan(**layout_params) and add_title(**title_params)
MainNewFloorPlan ==
    /\ pc.at = "plan"
    /\ pc.plan <= Len(settings.floor_plans)
    /\ LET floor_plan_params == settings.floor_plans[pc.plan]
           layout_params == IF floor_plan_params.layout = None
                            THEN settings.default_layout
                            ELSE floor_plan_params.layout[1]
           title_params == floor_plan_params.title
           plain == FloorPlanInit(pc.plan, layout_params.bottom_left_corner,
                                  layout_params.top_right_corner,
                                  layout_params.scale_numerator,
                                  layout_params.scale_denominator,
                                  layout_params.grid_major_step,
                                  layout_params.grid_minor_step)
       IN  /\ layout' = layout_params
           /\ IF title_params = None
              THEN /\ floor_plan' = plain
                   /\ title_calls' = << >>
              ELSE /\ floor_plan' =
                        FloorPlanAddTitle(plain, title_params[1].text,
                                          title_params[1].font_size,
                                          Frac(1, 2), Frac(95, 100))
                   /\ title_calls' =
                        << [text |-> title_params[1].text,
                            font_size |-> title_params[1].font_size,
                            rel_x |-> Frac(1, 2), rel_y |-> Frac(95, 100)] >>
    /\ calls' = << >>
    /\ pc' = [pc EXCEPT !.at = "inherited", !.set = 1, !.elem = 1]
    /\ UNCHANGED <<config, settings, floor_plans, raised, elementVars,
                   projectVars>>

\* the loops over the inherited sets and their elements: the next element
\* of the current set is built and added, or the loop moves on
MainInheritedElement ==
    /\ pc.at = "inherited"
    /\ LET set_names == settings.floor_plans[pc.plan].inherited_elements
       IN  IF pc.set > Len(set_names)
           THEN /\ pc' = [pc EXCEPT !.at = "elements", !.elem = 1]
                /\ UNCHANGED <<settings, floor_plan, calls, raised>>
           ELSE IF pc.elem > Len(ReusableSet(settings, set_names[pc.set]))
           THEN /\ pc' = [pc EXCEPT !.set = @ + 1, !.elem = 1]
                /\ UNCHANGED <<settings, floor_plan, calls, raised>>
           ELSE LET set_name == set_names[pc.set]
                    built == MainBuildElement(
                                 ReusableSet(settings, set_name)[pc.elem])
                IN  /\ settings' =
                          [settings EXCEPT
                              !.reusable_elements[set_name][pc.elem] =
                                  built.params]
                    /\ IF built.raised = "None"
                       THEN /\ floor_plan' = FloorPlanAddElement(
                                                 floor_plan, built.element)
                            /\ calls' = Append(calls, built.element)
                            /\ raised' = DrawRaises(built.element)
                       ELSE /\ raised' = built.raised
                            /\ UNCHANGED <<floor_plan, calls>>
                    /\ pc' = IF raised' = "None"
                             THEN [pc EXCEPT !.elem = @ + 1]
                             ELSE MainRaise(pc)
    /\ UNCHANGED <<config, floor_plans, layout, title_calls, elementVars,
                   projectVars>>

\* the loop over the elements of the floor plan itself
MainElement ==
    /\ pc.at = "elements"
    /\ LET own == settings.floor_plans[pc.plan].elements
       IN  IF pc.elem > Len(own)
           THEN /\ pc' = [pc EXCEPT !.at = "append"]
                /\ UNCHANGED <<settings, floor_plan, calls, raised>>
           ELSE LET built == MainBuildElement(own[pc.elem])
                IN  /\ settings' =
                          [settings EXCEPT
                              !.floor_plans[pc.plan].elements[pc.elem] =
                                  built.params]
                    /\ IF built.raised = "None"
                       THEN /\ floor_plan' = FloorPlanAddElement(
                                                 floor_plan, built.element)
                            /\ calls' = Append(calls, built.element)
                            /\ raised' = DrawRaises(built.element)
                       ELSE /\ raised' = built.raised
                            /\ UNCHANGED <<floor_plan, calls>>
                    /\ pc' = IF raised' = "None"
                             THEN [pc EXCEPT !.elem = @ + 1]
                             ELSE MainRaise(pc)
    /\ UNCHANGED <<config, floor_plans, layout, title_calls, elementVars,
                   projectVars>>

\* floor_plans.append(floor_plan)
MainAppend ==
    /\ pc.at = "append"
    /\ floor_plans' = Append(floor_plans, floor_plan)
    /\ pc' = [pc EXCEPT !.at = "plan", !.plan = @ + 1]
    /\ UNCHANGED <<config, settings, raised, elementVars, planVars,
                   projectVars>>

\* Project(floor_plans, dpi), once the loop over the floor plans is over
MainProject ==
    /\ pc.at = "plan"
    /\ pc.plan > Len(settings.floor_plans)
    /\ project' = ProjectInit(floor_plans, settings.project.dpi)
    /\ pc' = [pc EXCEPT !.at = "pdf"]
    /\ UNCHANGED <<config, settings, floor_plans, raised, pdf, png_dir,
                   rendered, render_calls, elementVars, planVars>>

\* render_to_pdf if pdf_file is given
MainRenderPdf ==
    /\ pc.at = "pdf"
    /\ IF settings.project.pdf_file # None
       THEN /\ pdf' = Some(ProjectPdfPages(project))
            /\ rendered' = rendered \cup {"pdf"}
            /\ render_calls' = Append(render_calls, "pdf")
       ELSE UNCHANGED <<pdf, rendered, render_calls>>
    /\ pc' = [pc EXCEPT !.at = "png"]
    /\ UNCHANGED <<config, settings, floor_plans, raised, project, png_dir,
                   elementVars, planVars>>

\* render_to_png if png_dir is given
MainRenderPng ==
    /\ pc.at = "png"
    /\ IF settings.project.png_dir # None
       THEN /\ png_dir' = Some(ProjectRenderToPng(project, png_dir).dir)
            /\ raised' = ProjectRenderToPng(project, png_dir).raised
            /\ project' = ProjectRenderToPng(project, png_dir).self
            /\ rendered' = rendered \cup {"png"}
            /\ render_calls' = Append(render_calls, "png")
       ELSE UNCHANGED <<png_dir, raised, project, rendered, render_calls>>
    /\ pc' = IF raised' = "None" THEN [pc EXCEPT !.at = "done"]
             ELSE MainRaise(pc)
    /\ UNCHANGED <<config, settings, floor_plans, pdf, elementVars,
                   planVars>>

MainNext ==
    \/ MainNewFloorPlan
    \/ MainInheritedElement
    \/ MainElement
    \/ MainAppend
    \/ MainProject
    \/ MainRenderPdf
    \/ MainRenderPng

MainSpec == MainInit /\ [][MainNext]_vars

---------------------------------------------------------------------------
(* Geometry used to state the properties *)

One == Int2Num(1)
Two == Int2Num(2)

\* the four corners of a rectangle patch: xy is a corner, the width runs
\* along `angle` and the height along `angle + 90`
RectCorners(r) ==
    { PAdd(r.xy, PAdd(PScale(Mul(a, r.width), Dir(r.angle)),
                      PScale(Mul(b, r.height), Dir(r.angle + 90)))) :
        a \in {Zero, One}, b \in {Zero, One} }

\* the mirror image of point p across the line through A with unit
\* direction e
Reflect(p, A, e) ==
    PSub(PAdd(A, PScale(Mul(Two, Dot(PSub(p, A), e)), e)), PSub(p, A))

\* the primitives added by the j-th draw call, n primitives per call
DrawnCopy(j, n) == SubSeq(ax, (j - 1) * n + 1, j * n)

\* the primitives added by the first draw call
FirstCopy == DrawnCopy(1, Len(ax) \div draws)

Range(seq) == {seq[i] : i \in DOMAIN seq}
CountKind(seq, k) == Cardinality({i \in DOMAIN seq : seq[i].kind = k})

\* the number a decimal text denotes
DigitVal(ch) == CHOOSE v \in 0..9 : Digits[v + 1] = ch
RECURSIVE DigitsVal(_)
DigitsVal(t) ==
    IF Len(t) = 0 THEN 0
    ELSE 10 * DigitsVal(SubSeq(t, 1, Len(t) - 1)) + DigitVal(t[Len(t)])
RECURSIVE Pow10(_)
Pow10(k) == IF k = 0 THEN 1 ELSE 10 * Pow10(k - 1)
DecimalValue(t) ==
    LET dots == {i \in DOMAIN t : t[i] = "."}
    IN  IF dots = {} THEN Int2Num(DigitsVal(t))
        ELSE LET p == CHOOSE i \in dots : TRUE
             IN  Add(Int2Num(DigitsVal(SubSeq(t, 1, p - 1))),
                     Frac(DigitsVal(SubSeq(t, p + 1, Len(t))),
                          Pow10(Len(t) - p)))

---------------------------------------------------------------------------
(* Properties of Window *)

\* C1: Window construction raises an error exactly when
\* overall_thickness - 2*single_line_thickness <= 0 (0 included); otherwise
\* it succeeds and stores both thicknesses unchanged; when it raises, no
\* Window object exists.
C1_WindowConstruction ==
    call.class = "Window" =>
        LET internal ==
                call.overall_thickness[1] - 2 * call.single_line_thickness[1]
        IN  /\ raised \in {"None", "ValueError"}
            /\ (raised = "ValueError") <=> (internal <= 0)
            /\ (raised = "ValueError") <=> (element = NoElement)
            /\ element # NoElement =>
                /\ element.kind = "Window"
                /\ element.overall_thickness = call.overall_thickness
                /\ element.single_line_thickness = call.single_line_thickness

C1_Witness ==
    /\ call.class = "Window"
    /\ call.overall_thickness = Mul(Two, call.single_line_thickness)
    /\ raised = "ValueError"
    /\ element = NoElement

\* C2: a constructed Window draws exactly two rectangles of size
\* length x single_line_thickness at orientation_angle, the first at
\* anchor_point, the second displaced by overall_thickness -
\* single_line_thickness towards orientation_angle + 90; the gap between
\* the two lines is overall_thickness - 2*single_line_thickness.
C2_WindowTwoLines ==
    (element.kind = "Window" /\ draws >= 1) =>
        /\ Len(ax) = 2 * draws
        /\ \A j \in 1..draws :
            LET first == DrawnCopy(j, 2)[1]
                second == DrawnCopy(j, 2)[2]
                normal == Dir(call.orientation_angle + 90)
                offset == Dot(PSub(second.xy, first.xy), normal)
            IN  /\ \A r \in {first, second} :
                    /\ r.kind = "Rectangle"
                    /\ r.width = call.length
                    /\ r.height = call.single_line_thickness
                    /\ r.angle = call.orientation_angle
                /\ first.xy = call.anchor_point
                /\ second.xy =
                     PAdd(call.anchor_point,
                          PScale(Sub(call.overall_thickness,
                                     call.single_line_thickness), normal))
                /\ Sub(offset, first.height) =
                     Sub(call.overall_thickness,
                         Mul(Two, call.single_line_thickness))

\* a window whose overall thickness is 2*single_line_thickness + 0.1
C2_Witness ==
    /\ element.kind = "Window"
    /\ draws >= 1
    /\ element.overall_thickness =
         Add(Mul(Two, element.single_line_thickness), Frac(1, 10))
    /\ element.orientation_angle = 30

---------------------------------------------------------------------------
(* Properties of Door *)

\* the door of the last constructor call, opening to the other side
OtherDoor ==
    DoorInit(call.anchor_point, call.doorway_width, call.door_width,
             call.thickness, call.orientation_angle, ~call.to_the_right,
             call.color)

\* the centre line of the door frame: through the middle of the frame's
\* depth, along orientation_angle
AxisPoint ==
    PSub(call.anchor_point,
         PScale(Div(call.thickness, Two), Dir(call.orientation_angle + 90)))
AxisDir == Dir(call.orientation_angle)

\* the mirror image of an arc whose own angle is the direction of the axis
MirrorArc(a) ==
    [a EXCEPT !.xy = Reflect(a.xy, AxisPoint, AxisDir),
              !.theta1 = -a.theta2, !.theta2 = -a.theta1]

\* C3: with all other parameters equal, the leaf and the swing arc drawn
\* with to_the_right = TRUE are the mirror images, across the centre line
\* of the door frame, of those drawn with to_the_right = FALSE; the two
\* frame segments are the same in both cases.
C3_DoorMirror ==
    (element.kind = "Door" /\ draws >= 1) =>
        LET mine == DrawnCopy(1, 4)
            other == DoorDraw(OtherDoor)
        IN  /\ mine[1] = other[1]
            /\ mine[2] = other[2]
            /\ mine[3].kind = "Rectangle" /\ other[3].kind = "Rectangle"
            /\ { Reflect(c, AxisPoint, AxisDir) : c \in RectCorners(mine[3]) }
                 = RectCorners(other[3])
            /\ mine[4].kind = "Arc"
            /\ mine[4].angle = call.orientation_angle
            /\ MirrorArc(mine[4]) = other[4]

C3_Witness ==
    /\ element.kind = "Door"
    /\ draws >= 1
    /\ element.to_the_right
    /\ element.orientation_angle = 30
    /\ Less(Zero, element.frame_width)

\* C4: the door draws two frame rectangles, each (doorway_width -
\* door_width)/2 long along the doorway and `thickness` deep, the first at
\* anchor_point, the second frame_width + door_width further along
\* orientation_angle, so that frame + leaf opening + frame span
\* doorway_width; the hinge point is frame_width along the doorway.
C4_DoorFrames ==
    (element.kind = "Door" /\ draws >= 1) =>
        LET with_hinges == DrawnCopy(1, 4)[1]
            without_hinges == DrawnCopy(1, 4)[2]
            leaf == DrawnCopy(1, 4)[3]
            along == Dir(call.orientation_angle)
            fw == with_hinges.height
        IN  /\ Add(fw, fw) = Sub(call.doorway_width, call.door_width)
            /\ \A r \in {with_hinges, without_hinges} :
                /\ r.kind = "Rectangle"
                /\ r.angle = call.orientation_angle - 90
                /\ r.width = call.thickness
                /\ r.height = fw
            /\ with_hinges.xy = call.anchor_point
            /\ without_hinges.xy =
                 PAdd(call.anchor_point,
                      PScale(Add(fw, call.door_width), along))
            /\ Add(Dot(PSub(without_hinges.xy, call.anchor_point), along),
                   without_hinges.height) = call.doorway_width
            /\ Dot(PSub(leaf.xy, call.anchor_point), along) = fw

C4_Witness ==
    /\ element.kind = "Door"
    /\ draws >= 1
    /\ element.to_the_right
    /\ element.orientation_angle = 45
    /\ Less(element.door_width, element.doorway_width)

\* C5: the swing arc spans 92 degrees: relative to orientation_angle it runs
\* from 0 to 92 when to_the_right is false and from -92 to 0 when it is
\* true; the 2-degree overshoot is at the end where the open leaf is, the
\* other end is on the doorway direction.
C5_DoorArcSpan ==
    (element.kind = "Door" /\ draws >= 1) =>
        LET leaf == DrawnCopy(1, 4)[3]
            arc == DrawnCopy(1, 4)[4]
            quarter == IF call.to_the_right THEN -90 ELSE 90
            leaf_end ==
                PAdd(arc.xy, PScale(call.door_width,
                                    Dir(call.orientation_angle + quarter)))
        IN  /\ arc.kind = "Arc"
            /\ arc.angle = call.orientation_angle
            /\ arc.theta2 - arc.theta1 = 92
            /\ call.to_the_right => arc.theta1 = -92 /\ arc.theta2 = 0
            /\ ~call.to_the_right => arc.theta1 = 0 /\ arc.theta2 = 92
            /\ leaf_end \in RectCorners(leaf)

C5_Witness ==
    /\ element.kind = "Door"
    /\ draws >= 1
    /\ element.to_the_right
    /\ ax[4].theta1 = -92

---------------------------------------------------------------------------
(* Properties of DimensionArrow *)

\* C6 as stated: the outline polygon has exactly 13 vertices, the first and
\* the last distinct, for every length, width and tip_length.
C6_AsStated ==
    (element.kind = "DimensionArrow" /\ draws >= 1) =>
        /\ Len(FirstCopy[1].xy) = 13
        /\ FirstCopy[1].xy[1] # FirstCopy[1].xy[Len(FirstCopy[1].xy)]

\* C6, amended: DimensionArrow.draw emits one closed outline polygon that
\* has exactly 14 vertices; its first and last vertices are distinct
\* whenever tip_length differs from sin(30 degrees) * width.
C6_ArrowOutline ==
    (element.kind = "DimensionArrow" /\ draws >= 1) =>
        \A j \in 1..draws :
            LET copy == DrawnCopy(j, 2)
                outline == copy[1]
            IN  /\ CountKind(copy, "Polygon") = 1
                /\ outline.kind = "Polygon"
                /\ outline.closed
                /\ Len(outline.xy) = 14
                /\ (call.tip_length # Mul(Frac(1, 2), call.width)) =>
                        outline.xy[1] # outline.xy[14]

C6_Witness ==
    /\ element.kind = "DimensionArrow"
    /\ draws >= 1
    /\ element.tip_length # Mul(Frac(1, 2), element.width)
    /\ Len(ax[1].xy) = 14
    /\ ax[1].xy[1] # ax[1].xy[14]

\* C7: DimensionArrow.draw emits exactly one text label; its content is the
\* decimal string of length, its rotation is orientation_angle, and its
\* position is anchor_point + rotate((length/2, s*0.0125*font_size),
\* orientation_angle), s = +1 if annotate_above and -1 otherwise.
C7_ArrowLabel ==
    (element.kind = "DimensionArrow" /\ draws >= 1) =>
        \A j \in 1..draws :
            LET copy == DrawnCopy(j, 2)
                label == copy[2]
                along == Dir(call.orientation_angle)
                across == Dir(call.orientation_angle + 90)
                offset == Frac(125 * call.font_size, 10000)
            IN  /\ CountKind(copy, "Text") = 1
                /\ label.kind = "Text"
                /\ DecimalValue(label.text) = call.length
                /\ label.rotation = call.orientation_angle
                /\ label.xy =
                     PAdd(call.anchor_point,
                          PAdd(PScale(Div(call.length, Two), along),
                               PScale(IF call.annotate_above THEN offset
                                      ELSE Neg(offset), across)))

C7_Witness ==
    /\ element.kind = "DimensionArrow"
    /\ draws >= 1
    /\ element.annotate_above
    /\ element.orientation_angle = 30
    /\ element.length = Frac(5, 2)
    /\ ax[2].text = <<"2", ".", "5">>

---------------------------------------------------------------------------
(* Properties of WallLamp *)

\* C8 as stated: the arc of a wall lamp spans 300 degrees.
C8_AsStated ==
    (element.kind = "WallLamp" /\ draws >= 1) =>
        FirstCopy[2].theta2 - FirstCopy[2].theta1 = 300

\* C8, amended: WallLamp.draw emits an arc whose angular span
\* (theta2 - theta1) is 270 degrees, for every orientation_angle.
C8_WallLampArcSpan ==
    (element.kind = "WallLamp" /\ draws >= 1) =>
        \A j \in 1..draws :
            LET copy == DrawnCopy(j, 4)
            IN  /\ CountKind(copy, "Arc") = 1
                /\ copy[2].kind = "Arc"
                /\ copy[2].theta2 - copy[2].theta1 = 270

C8_Witness ==
    /\ element.kind = "WallLamp"
    /\ draws >= 1
    /\ element.orientation_angle = 45
    /\ ax[2].theta1 = 0
    /\ ax[2].theta2 = 270

---------------------------------------------------------------------------
(* Properties of PowerOutlet *)

\* what the outlet of the last constructor call draws with other flags
OutletWith(w, h, l) ==
    PowerOutletDraw(
        PowerOutletInit(call.anchor_point, call.length,
                        call.orientation_angle, w, h, l, call.color))

\* the primitives a flag adds to the plain outlet
Decoration(w, h, l) == Range(OutletWith(w, h, l)) \ Range(OutletWith(FALSE, FALSE, FALSE))

\* C9: for each of the 8 flag combinations a power outlet draws the same 4
\* base primitives (half-circle arc, stem, crossbar, tip stroke), plus one
\* stroke iff waterproof, two strokes iff high_voltage and one circle iff
\* low_current; each decoration is the same whatever the other two flags.
C9_OutletDecorations ==
    (element.kind = "PowerOutlet" /\ draws >= 1) =>
        LET mine == FirstCopy
            plain == OutletWith(FALSE, FALSE, FALSE)
            n(b) == IF b THEN 1 ELSE 0
        IN  /\ Len(mine) = 4 + n(call.waterproof) + 2 * n(call.high_voltage)
                             + n(call.low_current)
            /\ SubSeq(mine, 1, 4) = plain
            /\ Len(plain) = 4
            /\ plain[1].kind = "Arc"
            /\ plain[1].theta2 - plain[1].theta1 = 180
            /\ \A i \in 2..4 : plain[i].kind = "Line2D"
            /\ CountKind(mine, "Arc") = 1
            /\ CountKind(mine, "Line2D") =
                 3 + n(call.waterproof) + 2 * n(call.high_voltage)
            /\ CountKind(mine, "Circle") = n(call.low_current)
            /\ Cardinality(Range(mine)) = Len(mine)
            /\ Range(mine) =
                 Range(plain)
                 \cup (IF call.waterproof
                       THEN Decoration(TRUE, FALSE, FALSE) ELSE {})
                 \cup (IF call.high_voltage
                       THEN Decoration(FALSE, TRUE, FALSE) ELSE {})
                 \cup (IF call.low_current
                       THEN Decoration(FALSE, FALSE, TRUE) ELSE {})

C9_Witness ==
    /\ element.kind = "PowerOutlet"
    /\ draws >= 1
    /\ element.waterproof /\ element.high_voltage /\ element.low_current
    /\ Len(FirstCopy) = 8

---------------------------------------------------------------------------
(* Properties of ElectricalCable *)

\* C10: an electrical cable draws exactly one filled circle and exactly
\* n_arcs arcs; arc i (from 0) is a half circle covering
\* [orientation_angle - 90, orientation_angle + 90] when i is even and
\* [orientation_angle + 90, orientation_angle + 270] when i is odd, so
\* consecutive arcs bulge to opposite sides.
C10_CableArcs ==
    (element.kind = "ElectricalCable" /\ draws >= 1) =>
        \A j \in 1..draws :
            LET copy == DrawnCopy(j, 1 + call.n_arcs)
                arc(i) == copy[i + 2]
            IN  /\ Len(ax) = draws * (1 + call.n_arcs)
                /\ copy[1].kind = "Circle"
                /\ copy[1].fill
                /\ CountKind(copy, "Circle") = 1
                /\ CountKind(copy, "Arc") = call.n_arcs
                /\ \A i \in 0..(call.n_arcs - 1) :
                    /\ arc(i).kind = "Arc"
                    /\ arc(i).angle = 0
                    /\ arc(i).theta2 - arc(i).theta1 = 180
                    /\ (i % 2 = 0) =>
                        /\ arc(i).theta1 = call.orientation_angle - 90
                        /\ arc(i).theta2 = call.orientation_angle + 90
                    /\ (i % 2 = 1) =>
                        /\ arc(i).theta1 = call.orientation_angle + 90
                        /\ arc(i).theta2 = call.orientation_angle + 270
                /\ \A i \in 0..(call.n_arcs - 2) :
                    (arc(i + 1).theta1 - arc(i).theta1) % 360 = 180

C10_Witness ==
    /\ element.kind = "ElectricalCable"
    /\ draws >= 1
    /\ element.n_arcs = 3
    /\ Len(ax) >= 4
    /\ ax[3].theta1 = element.orientation_angle + 90

---------------------------------------------------------------------------
\* C11: LEDStrip.draw emits one unfilled length x width rectangle and
\* exactly n = floor(length / width) circles, that is n * width <= length <
\* (n + 1) * width; each circle has diameter 0.6 * width, and circle i
\* (i = 0 .. n - 1) has its centre (2i + 1) * length / (2n) along the strip
\* from the anchor and width / 2 across it; a strip of length 1.0 and
\* width 0.2 gets exactly 5 circles.
C11_LEDStripCircles ==
    (call.class = "LEDStrip" /\ draws > 0) =>
        LET n == (Len(ax) \div draws) - 1
            along == Dir(call.orientation_angle)
            across == Dir(call.orientation_angle + 90)
        IN  /\ Len(ax) = draws * (n + 1)
            /\ n >= 0
            /\ Leq(Mul(Int2Num(n), call.width), call.length)
            /\ Less(call.length, Mul(Int2Num(n + 1), call.width))
            /\ (call.length = One /\ call.width = Frac(2, 10)) => n = 5
            /\ \A j \in 1..draws :
                LET copy == DrawnCopy(j, n + 1)
                IN  /\ copy[1] = Rectangle(call.anchor_point, call.length,
                                           call.width, call.orientation_angle,
                                           FALSE, call.color)
                    /\ \A i \in 0..(n - 1) :
                        LET c == copy[i + 2]
                            offset == PSub(c.xy, call.anchor_point)
                        IN  /\ c.kind = "Circle"
                            /\ Mul(Two, c.radius)
                                 = Mul(Frac(6, 10), call.width)
                            /\ Mul(Int2Num(2 * n), Dot(offset, along))
                                 = Mul(Int2Num(2 * i + 1), call.length)
                            /\ Mul(Two, Dot(offset, across)) = call.width

C11_Witness ==
    /\ call.class = "LEDStrip"
    /\ call.length = One
    /\ call.width = Frac(2, 10)
    /\ call.orientation_angle = 30
    /\ draws = 2
    /\ Len(ax) = 12
    /\ CountKind(ax, "Circle") = 10

---------------------------------------------------------------------------
\* the strokes base, base + 1 (and base + 2 when pass_through) of a drawn
\* switch form one key symbol at the given angle: a stroke from the centre
\* of the circle outwards along the angle, a tip stroke that starts at its
\* far end and is perpendicular to it, and with pass_through one more tick
\* that starts on the radial stroke and is perpendicular to it
KeySymbolAt(copy, base, angle) ==
    LET centre == copy[1].xy
        radial == copy[base]
        tip == copy[base + 1]
        tick == copy[base + 2]
        reach == Dot(PSub(radial.p2, radial.p1), Dir(angle))
    IN  /\ radial.kind = "Line2D"
        /\ radial.p1 = centre
        /\ Dot(PSub(radial.p2, radial.p1), Dir(angle + 90)) = Zero
        /\ Less(Zero, reach)
        /\ tip.kind = "Line2D"
        /\ tip.p1 = radial.p2
        /\ tip.p2 # tip.p1
        /\ Dot(PSub(tip.p2, tip.p1), Dir(angle)) = Zero
        /\ call.pass_through =>
            /\ tick.kind = "Line2D"
            /\ tick.p2 # tick.p1
            /\ Dot(PSub(tick.p2, tick.p1), Dir(angle)) = Zero
            /\ Dot(PSub(tick.p1, centre), Dir(angle + 90)) = Zero
            /\ Less(Zero, Dot(PSub(tick.p1, centre), Dir(angle)))
            /\ Less(Dot(PSub(tick.p1, centre), Dir(angle)), reach)

\* C12: a drawn Switch consists of exactly one filled circle and k key
\* symbols, k = 2 if two_key else 1; each key symbol is a radial stroke
\* plus a perpendicular tip stroke plus exactly one extra tick iff
\* pass_through, so there are k * (2 + pass_through) strokes; the first key
\* is at orientation_angle + 90 and the second at orientation_angle + 45.
C12_SwitchSymbol ==
    (call.class = "Switch" /\ draws > 0) =>
        LET k == IF call.two_key THEN 2 ELSE 1
            per == IF call.pass_through THEN 3 ELSE 2
        IN  /\ Len(ax) = draws * (1 + k * per)
            /\ \A j \in 1..draws :
                LET copy == DrawnCopy(j, 1 + k * per)
                IN  /\ copy[1].kind = "Circle"
                    /\ copy[1].fill
                    /\ CountKind(copy, "Circle") = 1
                    /\ CountKind(copy, "Line2D") = k * per
                    /\ KeySymbolAt(copy, 2, call.orientation_angle + 90)
                    /\ call.two_key =>
                        KeySymbolAt(copy, 2 + per,
                                    call.orientation_angle + 45)

C12_Witness ==
    /\ call.class = "Switch"
    /\ call.two_key
    /\ call.pass_through
    /\ call.orientation_angle = 30
    /\ draws = 1
    /\ Len(ax) = 7

---------------------------------------------------------------------------
SupportedStyles == {"solid", "dashed", "dotted", "dash_dot"}

\* C13: constructing a Line with a style outside {solid, dashed, dotted,
\* dash_dot} fails with a lookup error (KeyError) at construction, before
\* any draw, and yields no Line object; constructing it with any of the
\* four names succeeds.
C13_LineStyleLookup ==
    (call.class = "Line") =>
        /\ (call.style \notin SupportedStyles) =>
            /\ raised = "KeyError"
            /\ element = NoElement
            /\ draws = 0
            /\ ax = << >>
        /\ (call.style \in SupportedStyles) =>
            /\ element # NoElement
            /\ element.kind = "Line"
            /\ element.first_point = call.first_point
            /\ element.second_point = call.second_point
            /\ (draws = 0) => (raised = "None")

C13_Witness ==
    /\ call.class = "Line"
    /\ call.style = "wavy"
    /\ raised = "KeyError"
    /\ element = NoElement

\* C14: each of the four style names maps to a distinct token of the line
\* style vocabulary of matplotlib ('-', '--', '-.', ':'), so a Line with
\* any supported style is drawn without error: every draw call adds its
\* one segment and raises nothing.
C14_LineStyleTokens ==
    /\ \A s \in SupportedStyles, t \in SupportedStyles :
        (s # t) => (style_to_matplotlib_code[s] # style_to_matplotlib_code[t])
    /\ (call.class = "Line" /\ call.style \in SupportedStyles) =>
        /\ element.style \in {"-", "--", "-.", ":"}
        /\ (draws > 0) => (raised = "None" /\ Len(ax) = draws)

---------------------------------------------------------------------------
\* the primitives of a sequence of elements, element after element
RECURSIVE PaintedBy(_)
PaintedBy(elems) ==
    IF elems = << >> THEN << >>
    ELSE PaintedBy(SubSeq(elems, 1, Len(elems) - 1))
         \o DrawOf(elems[Len(elems)])

TicksFor(ticks, low, high, step) ==
    IF step = None THEN ticks = None
    ELSE /\ ticks # None
         /\ Less(Zero, step[1])
         /\ LET t == ticks[1]
            IN  /\ Len(t) >= 1
                /\ t[1] = low
                /\ \A k \in DOMAIN t :
                    /\ t[k] = Add(low, Mul(Int2Num(k - 1), step[1]))
                    /\ Less(t[k], high)
                    /\ t[k] # high
                /\ Leq(high, Add(t[Len(t)], step[1]))

\* C16: for a grid step s > 0 the ticks are exactly bottom_left + k * s,
\* k = 0, 1, 2, ..., strictly below top_right: the first tick is at
\* bottom_left and there is no tick at top_right, even when s divides the
\* extent; for a step that is None no ticks and no grid are configured.
C16_GridTicks ==
    (floor_plan # NoPlan) =>
        LET bl == layout.bottom_left_corner
            tr == layout.top_right_corner
            axes == floor_plan.ax
        IN  /\ TicksFor(axes.xticks, bl[1], tr[1], layout.grid_major_step)
            /\ TicksFor(axes.yticks, bl[2], tr[2], layout.grid_major_step)
            /\ TicksFor(axes.minor_xticks, bl[1], tr[1],
                        layout.grid_minor_step)
            /\ TicksFor(axes.minor_yticks, bl[2], tr[2],
                        layout.grid_minor_step)
            /\ (layout.grid_major_step = None)
                 <=> (\A g \in axes.grid : g.which # "major")
            /\ (layout.grid_minor_step = None)
                 <=> (\A g \in axes.grid : g.which # "minor")

\* the step 1 divides the extent 5: ticks 0, 1, 2, 3, 4 and none at 5
C16_Witness ==
    /\ floor_plan # NoPlan
    /\ layout.bottom_left_corner = Origin
    /\ layout.top_right_corner = <<Int2Num(5), Int2Num(3)>>
    /\ layout.grid_major_step = Some(Int2Num(1))
    /\ layout.grid_minor_step = None
    /\ Len(floor_plan.ax.xticks[1]) = 5
    /\ floor_plan.ax.xticks[1][5] = Int2Num(4)

\* C17: the page width and height in inches are the extent
\* (top_right - bottom_left) times scale_numerator / scale_denominator
\* divided by 0.0254, that is size * 0.0254 * denominator = extent *
\* numerator; for the extent (0, 0) - (5, 3) and the default scale 1/100
\* the page is 5 * 0.01 / 0.0254 by 3 * 0.01 / 0.0254 inches.
C17_PageSize ==
    (floor_plan # NoPlan) =>
        LET bl == layout.bottom_left_corner
            tr == layout.top_right_corner
            size == floor_plan.fig.figsize
            metres == RatNorm(254 * layout.scale_denominator,
                              10000 * layout.scale_numerator)
        IN  /\ RatMul(size[1], metres) = RatOf(Sub(tr[1], bl[1]))
            /\ RatMul(size[2], metres) = RatOf(Sub(tr[2], bl[2]))
            /\ (/\ bl = Origin
                /\ tr = <<Int2Num(5), Int2Num(3)>>
                /\ layout.scale_numerator = 1
                /\ layout.scale_denominator = 100)
               => size = <<RatNorm(5 * 100, 254), RatNorm(3 * 100, 254)>>

C17_Witness ==
    /\ floor_plan # NoPlan
    /\ layout.bottom_left_corner = Origin
    /\ layout.top_right_corner = <<Int2Num(5), Int2Num(3)>>
    /\ layout.scale_numerator = 1
    /\ layout.scale_denominator = 100
    /\ floor_plan.fig.figsize[1] = <<250, 127>>

---------------------------------------------------------------------------
DotPng == <<".", "p", "n", "g">>
FileNames == {f.name : f \in png_dir[1]}

\* the file name C18 gives the plan at index i (counted from 0)
NamedAfterTitle(plan, i) ==
    IF plan.title = None \/ plan.title[1] = << >> THEN IntStr(i) \o DotPng
    ELSE IF EndsWith(plan.title[1], DotPng) THEN plan.title[1]
    ELSE plan.title[1] \o DotPng

\* C18: render_to_png names each file after the title of its canvas, or
\* '<i>.png' when the canvas has no title, and appends '.png' whenever the
\* title lacks it, so that every canvas has its file and every file name
\* ends in '.png'.
C18_PngFileNames ==
    ("png" \in rendered) =>
        /\ \A i \in 1..Len(project.floor_plans) :
            NamedAfterTitle(project.floor_plans[i], i - 1) \in FileNames
        /\ \A name \in FileNames : EndsWith(name, DotPng)

\* C19: after render_to_png of n canvases into an empty or absent
\* directory the directory holds n distinct files: no two canvases are
\* written to the same file name.
C19_DistinctPngFiles ==
    ("png" \in rendered /\ raised = "None") =>
        Cardinality(png_dir[1]) = Len(project.floor_plans)

\* C20: render_to_pdf writes one document with exactly one page per
\* canvas, in list order, and every page is saved with the single dpi of
\* the project.
C20_PdfPages ==
    ("pdf" \in rendered) =>
        /\ pdf # None
        /\ Len(pdf[1]) = Len(project.floor_plans)
        /\ \A i \in 1..Len(project.floor_plans) :
            /\ pdf[1][i].fig = project.floor_plans[i].fig
            /\ pdf[1][i].fig.number = i
            /\ pdf[1][i].dpi = project.dpi

C20_Witness ==
    /\ "pdf" \in rendered
    /\ Len(project.floor_plans) = 2
    /\ project.floor_plans[1].title = None
    /\ project.floor_plans[2].title = Some(<<"p", "l", "a", "n">>)
    /\ project.dpi = "300"
    /\ Len(pdf[1]) = 2

---------------------------------------------------------------------------
\* the element the recorded constructor call has built
Constructed ==
    CASE call.class = "Wall" ->
            WallInit(call.anchor_point, call.length, call.thickness,
                     call.orientation_angle, call.color)
      [] call.class = "Window" ->
            WindowInit(call.anchor_point, call.length,
                       call.overall_thickness, call.single_line_thickness,
                       call.orientation_angle, call.color)
      [] call.class = "Door" ->
            DoorInit(call.anchor_point, call.doorway_width, call.door_width,
                     call.thickness, call.orientation_angle,
                     call.to_the_right, call.color)
      [] call.class = "DimensionArrow" ->
            DimensionArrowInit(call.anchor_point, call.length,
                               call.orientation_angle, call.width,
                               call.tip_length, call.font_size,
                               call.annotate_above, call.color)
      [] call.class = "WallLamp" ->
            WallLampInit(call.anchor_point, call.symbol_diameter,
                         call.orientation_angle, call.stub_relative_depth,
                         call.color)
      [] call.class = "PowerOutlet" ->
            PowerOutletInit(call.anchor_point, call.length,
                            call.orientation_angle, call.waterproof,
                            call.high_voltage, call.low_current, call.color)
      [] call.class = "ElectricalCable" ->
            ElectricalCableInit(call.anchor_point, call.symbol_length,
                                call.orientation_angle, call.n_arcs,
                                call.color)
      [] call.class = "LEDStrip" ->
            LEDStripInit(call.anchor_point, call.length, call.width,
                         call.orientation_angle, call.color)
      [] call.class = "Switch" ->
            SwitchInit(call.anchor_point, call.symbol_length,
                       call.orientation_angle, call.two_key,
                       call.pass_through, call.color)
      [] call.class = "Line" ->
            LineInit(call.first_point, call.second_point, call.style,
                     call.color)
      [] call.class = "CeilingLamp" ->
            CeilingLampInit(call.anchor_point, call.symbol_diameter,
                            call.color)
      [] call.class = "Polygon" -> PolygonInit(call.vertices, call.color)

\* C22: for every element kind, draw leaves the construction parameters of
\* the element unchanged, and every draw call on one surface succeeds and
\* adds the same non-empty sequence of primitives again: k calls leave k
\* copies and never an error.
C22_DrawRepeatable ==
    (element # NoElement /\ draws > 0) =>
        /\ element = Constructed
        /\ raised = "None"
        /\ Len(ax) > 0
        /\ Len(ax) = draws * (Len(ax) \div draws)
        /\ \A j \in 1..draws : DrawnCopy(j, Len(ax) \div draws) = FirstCopy

\* the parameters of an element that are lengths, thicknesses or widths
LengthFields ==
    {"length", "thickness", "width", "overall_thickness",
     "single_line_thickness", "doorway_width", "door_width", "frame_width",
     "symbol_diameter", "symbol_length", "tip_length"}

\* C23: every successfully constructed element holds strictly positive
\* length, thickness and width parameters, the derived frame_width of a
\* Door included.
C23_PositiveLengths ==
    (element # NoElement) =>
        \A f \in (DOMAIN element) \cap LengthFields : Less(Zero, element[f])

\* C27: LEDStrip.draw completes without error for every strip with
\* length > 0 and width > 0, also for length < width, where it adds the
\* rectangle and no circle.
C27_LEDStripDrawCompletes ==
    (/\ call.class = "LEDStrip"
     /\ Less(Zero, call.length)
     /\ Less(Zero, call.width)
     /\ draws > 0) =>
        /\ raised = "None"
        /\ Less(call.length, call.width) =>
            /\ Len(ax) = draws
            /\ \A i \in DOMAIN ax : ax[i].kind = "Rectangle"

---------------------------------------------------------------------------
\* C28: for every LEDStrip with length >= width > 0 the circles are evenly
\* spaced with centre-to-centre distance length / n, every circle lies
\* strictly inside the rectangle without touching any of its four edges,
\* and no two circles touch or overlap.
C28_LEDStripSpacing ==
    (/\ call.class = "LEDStrip"
     /\ Leq(call.width, call.length)
     /\ Less(Zero, call.width)
     /\ draws > 0) =>
        LET n == (Len(ax) \div draws) - 1
            copy == FirstCopy
            along(i) == Dot(PSub(copy[i + 1].xy, call.anchor_point),
                            Dir(call.orientation_angle))
            across(i) == Dot(PSub(copy[i + 1].xy, call.anchor_point),
                             Dir(call.orientation_angle + 90))
            radius(i) == copy[i + 1].radius
        IN  /\ n >= 1
            /\ \A i \in 1..n :
                /\ copy[i + 1].kind = "Circle"
                /\ Less(Zero, Sub(along(i), radius(i)))
                /\ Less(Add(along(i), radius(i)), call.length)
                /\ Less(Zero, Sub(across(i), radius(i)))
                /\ Less(Add(across(i), radius(i)), call.width)
            /\ \A i \in 1..(n - 1) :
                Mul(Int2Num(n), Sub(along(i + 1), along(i))) = call.length
            /\ \A i \in 1..n, j \in 1..n :
                (i < j) =>
                    Less(Add(radius(i), radius(j)),
                         Sub(along(j), along(i)))

C28_Witness ==
    /\ call.class = "LEDStrip"
    /\ call.length = Frac(1, 2)
    /\ call.width = Frac(1, 10)
    /\ call.orientation_angle = 45
    /\ draws = 1
    /\ Len(ax) = 6
    /\ ax[6].kind = "Circle"

---------------------------------------------------------------------------
\* x >= 0 for a number x = (a + c * sqrt(3)) / Scale
NonNegative(x) ==
    IF x[2] # 0 \/ x[4] # 0 THEN CHOOSE b \in {} : TRUE
    ELSE CASE x[1] >= 0 /\ x[3] >= 0 -> TRUE
           [] x[1] <= 0 /\ x[3] <= 0 -> x[1] = 0 /\ x[3] = 0
           [] x[1] > 0 /\ x[3] < 0 -> x[1] * x[1] >= 3 * x[3] * x[3]
           [] x[1] < 0 /\ x[3] > 0 -> 3 * x[3] * x[3] >= x[1] * x[1]

\* the outline of a drawn arrow is symmetric about the shaft baseline and
\* about the perpendicular through the shaft midpoint, and its two tips
\* are the anchor and the point `length` along the shaft
ArrowSymmetric ==
    LET outline == Range(ax[1].xy)
        shaft == Dir(call.orientation_angle)
        tip == PAdd(call.anchor_point, PScale(call.length, shaft))
        middle == PAdd(call.anchor_point,
                       PScale(Mul(Frac(1, 2), call.length), shaft))
    IN  /\ \A v \in outline :
            /\ Reflect(v, call.anchor_point, shaft) \in outline
            /\ Reflect(v, middle, Dir(call.orientation_angle + 90))
                 \in outline
        /\ call.anchor_point \in outline
        /\ tip \in outline

\* every vertex of the outline of a drawn arrow lies between the two tips
ArrowWithinLength ==
    \A v \in Range(ax[1].xy) :
        LET x == Dot(PSub(v, call.anchor_point),
                     Dir(call.orientation_angle))
        IN  NonNegative(x) /\ NonNegative(Sub(call.length, x))

\* C29: before rotation the DimensionArrow outline is symmetric about the
\* shaft baseline and about the perpendicular through the shaft midpoint:
\* with every vertex (x, y) both (x, -y) and (length - x, y) are vertices,
\* the two tip vertices are exactly (0, 0) and (length, 0), and so the
\* extent of the arrow along the shaft equals `length`: no vertex lies
\* before the first tip or beyond the second.
C29_ArrowSymmetry ==
    (call.class = "DimensionArrow" /\ draws > 0) =>
        (ArrowSymmetric /\ ArrowWithinLength)

---------------------------------------------------------------------------
\* the distance of point p from the anchor along the axis of the cable
\* symbol, and its distance off that axis
AlongAxis(p) ==
    Dot(PSub(p, call.anchor_point), Dir(call.orientation_angle + 90))
OffAxis(p) ==
    Dot(PSub(p, call.anchor_point), Dir(call.orientation_angle))

\* the two end points of an arc patch
ArcEnds(a) ==
    << PAdd(a.xy, PScale(Mul(Frac(1, 2), a.width), Dir(a.angle + a.theta1))),
       PAdd(a.xy, PScale(Mul(Frac(1, 2), a.width), Dir(a.angle + a.theta2))) >>

\* the stretch of the axis piece k of a drawn cable covers, k = 0 for the
\* circle and k = i + 1 for arc i
PieceFrom(k) ==
    IF k = 0 THEN Sub(AlongAxis(ax[1].xy), ax[1].radius)
    ELSE Sub(AlongAxis(ax[k + 1].xy), Mul(Frac(1, 2), ax[k + 1].width))
PieceTo(k) ==
    IF k = 0 THEN Add(AlongAxis(ax[1].xy), ax[1].radius)
    ELSE Add(AlongAxis(ax[k + 1].xy), Mul(Frac(1, 2), ax[k + 1].width))

\* C30: for every n_arcs >= 0 the ElectricalCable symbol extends exactly
\* symbol_length from the anchor along its axis (orientation_angle + 90):
\* with r = symbol_length / (2 * (n_arcs + 1)) the filled circle covers
\* [0, 2r], arc i covers [(2 + 2i) r, (4 + 2i) r] with both its ends on
\* the axis, consecutive pieces meet end to end without gap or overlap,
\* and the last piece ends at distance symbol_length.
C30_CableExtent ==
    (call.class = "ElectricalCable" /\ draws > 0) =>
        LET n == call.n_arcs
            r == ax[1].radius
        IN  /\ Mul(Int2Num(2 * (n + 1)), r) = call.symbol_length
            /\ ax[1].kind = "Circle"
            /\ OffAxis(ax[1].xy) = Zero
            /\ PieceFrom(0) = Zero
            /\ PieceTo(0) = Mul(Int2Num(2), r)
            /\ \A i \in 0..(n - 1) :
                LET a == ax[i + 2]
                IN  /\ a.kind = "Arc"
                    /\ a.width = a.height
                    /\ OffAxis(a.xy) = Zero
                    /\ PieceFrom(i + 1) = Mul(Int2Num(2 + 2 * i), r)
                    /\ PieceTo(i + 1) = Mul(Int2Num(4 + 2 * i), r)
                    /\ {AlongAxis(ArcEnds(a)[1]), AlongAxis(ArcEnds(a)[2])}
                         = {PieceFrom(i + 1), PieceTo(i + 1)}
                    /\ OffAxis(ArcEnds(a)[1]) = Zero
                    /\ OffAxis(ArcEnds(a)[2]) = Zero
            /\ \A k \in 0..(n - 1) : PieceTo(k) = PieceFrom(k + 1)
            /\ PieceTo(n) = call.symbol_length

C30_Witness ==
    /\ call.class = "ElectricalCable"
    /\ call.n_arcs = 3
    /\ call.symbol_length = Frac(1, 2)
    /\ call.orientation_angle = 30
    /\ draws = 1
    /\ Len(ax) = 4
    /\ ax[4].kind = "Arc"

---------------------------------------------------------------------------
FileNamesOf(dir) == {f.name : f \in dir[1]}

\* C21: any sequence of render_to_pdf and render_to_png calls leaves the
\* canvas list of the project (members and order), its dpi and the title
\* of every canvas unchanged: the '.png' suffix of a file name is never
\* written back to a title, and a repeated render_to_png produces the
\* same set of file names.
C21_RenderLeavesProject ==
    [][(project # NoProject) =>
          /\ project'.floor_plans = project.floor_plans
          /\ project'.dpi = project.dpi
          /\ \A i \in 1..Len(project.floor_plans) :
                project'.floor_plans[i].title = project.floor_plans[i].title
          /\ ("png" \in rendered /\ render_calls' = Append(render_calls, "png"))
                => FileNamesOf(png_dir') = FileNamesOf(png_dir)]_vars

C21_Witness ==
    /\ render_calls = <<"png", "pdf", "png">>
    /\ raised = "None"
    /\ Len(project.floor_plans) = 2
    /\ project.floor_plans[1].title = Some(<<"p", "l", "a", "n">>)
    /\ project.floor_plans[2].title = None
    /\ FileNamesOf(png_dir) = { <<"p", "l", "a", "n", ".", "p", "n", "g">>,
                                <<"1", ".", "p", "n", "g">> }

---------------------------------------------------------------------------
\* the floor plan without its title and without its elements
Untitled(plan) ==
    [plan EXCEPT !.title = None, !.fig.texts = << >>,
                 !.elements = << >>, !.ax.artists = << >>]

\* C25: a new floor plan has no title; after any sequence of add_title
\* calls the recorded title is the text of the most recent call and
\* render_to_png names the file after it; add_title changes nothing else
\* of the floor plan besides adding each text to the page at its
\* page-relative position.
C25_TitleIsLastText ==
    (floor_plan # NoPlan) =>
        /\ (title_calls = << >>) => floor_plan.title = None
        /\ (title_calls # << >>) =>
              /\ floor_plan.title = Some(title_calls[Len(title_calls)].text)
              /\ ProjectPngTitle(floor_plan, 0) =
                    title_calls[Len(title_calls)].text \o DotPng
              /\ FileNamesOf(Some(ProjectRenderToPng(
                        ProjectInit(<<floor_plan>>, "figure"), None).dir)) =
                    {title_calls[Len(title_calls)].text \o DotPng}
        /\ Len(floor_plan.fig.texts) = Len(title_calls)
        /\ \A i \in DOMAIN title_calls :
              /\ floor_plan.fig.texts[i].text = title_calls[i].text
              /\ floor_plan.fig.texts[i].x = title_calls[i].rel_x
              /\ floor_plan.fig.texts[i].y = title_calls[i].rel_y
              /\ floor_plan.fig.texts[i].size = title_calls[i].font_size
        /\ Untitled(floor_plan) =
              FloorPlanInit(1, layout.bottom_left_corner,
                            layout.top_right_corner, layout.scale_numerator,
                            layout.scale_denominator, layout.grid_major_step,
                            layout.grid_minor_step)

C25_Witness ==
    /\ floor_plan # NoPlan
    /\ Len(title_calls) = 2
    /\ title_calls[1].text = <<"A">>
    /\ title_calls[1].rel_x = Frac(1, 4)
    /\ title_calls[1].font_size = 8
    /\ title_calls[2].text = <<"P", "l", "a", "n">>
    /\ title_calls[2].rel_x = Frac(1, 2)
    /\ title_calls[2].rel_y = Frac(95, 100)
    /\ floor_plan.title = Some(<<"P", "l", "a", "n">>)
    /\ Len(floor_plan.fig.texts) = 2

---------------------------------------------------------------------------
\* how many elements the configuration lists for its floor plan k
ListedElements(k) ==
    LET floor_plan_params == config.floor_plans[k]
        RECURSIVE Inherited(_)
        Inherited(i) ==
            IF i = 0 THEN 0
            ELSE Inherited(i - 1)
                 + Len(ReusableSet(config,
                                   floor_plan_params.inherited_elements[i]))
    IN  Inherited(Len(floor_plan_params.inherited_elements))
        + Len(floor_plan_params.elements)

\* C24: an error raised while an element is built (invalid Window
\* thicknesses, unknown Line style, unregistered type name) is not caught:
\* it leaves main and ends the run; render_to_pdf and render_to_png run
\* only after every floor plan and every element has been built, so no PDF
\* or PNG output is written in a run in which a construction failed.
C24_ConstructionErrorAborts ==
    (pc # NotStarted) =>
        /\ (raised # "None") =>
              /\ pc.at = "raised"
              /\ project = NoProject
              /\ pdf = None
              /\ png_dir = None
              /\ rendered = {}
              /\ render_calls = << >>
        /\ (pdf # None \/ png_dir # None) =>
              /\ Len(floor_plans) = Len(config.floor_plans)
              /\ \A k \in 1..Len(floor_plans) :
                    Len(floor_plans[k].elements) = ListedElements(k)

C24_Witness ==
    /\ pc # NotStarted
    /\ raised = "ValueError"
    /\ pc.at = "raised"
    /\ pc.plan = 2
    /\ Len(floor_plans) = 1
    /\ Len(floor_plans[1].elements) = 3
    /\ config.project.pdf_file # None
    /\ config.project.png_dir # None
    /\ pdf = None
    /\ png_dir = None

---------------------------------------------------------------------------
\* the elements the constructors build from a list of parameters
BuiltFrom(params_list) ==
    [i \in DOMAIN params_list |-> MainBuildElement(params_list[i]).element]

\* the first two floor plans of the configuration both inherit the set
\* 'common', and the elements they list on their own are valid
BothInherit ==
    /\ Len(config.floor_plans) >= 2
    /\ \A k \in 1..2 :
          /\ config.floor_plans[k].inherited_elements = <<"common">>
          /\ \A j \in DOMAIN config.floor_plans[k].elements :
                MainBuildElement(config.floor_plans[k].elements[j]).raised
                    = "None"

\* C26: when two floor plans of a configuration both list the same
\* reusable element set under inherited_elements, main builds and adds
\* every element of the set to each of them: processing the first floor
\* plan leaves the parameters of the set, the 'type' of each entry
\* included, unchanged for the second.
C26_ReusableSetForBoth ==
    (pc # NotStarted /\ BothInherit) =>
        /\ raised = "None"
        /\ (Len(floor_plans) >= 1) =>
              settings.reusable_elements = config.reusable_elements
        /\ \A k \in 1..Len(floor_plans) :
              (k <= 2) =>
                  SubSeq(floor_plans[k].elements, 1, Len(CommonElements)) =
                      BuiltFrom(config.reusable_elements.common)

=============================================================================
